---- MODULE Spec2Model ----
(***************************************************************************)
(* College-football season pipeline (src/src/main.py).                     *)
(*                                                                         *)
(* Spec      : read_game_files, one step per report file of Scores/.       *)
(* SpecParse : parse_whatifsports_box_score applied to one box score.      *)
(* SpecSeason: read_game_files over a list of report files, then           *)
(*             compile_season_stats with a week cutoff.                    *)
(* SpecRank  : create_rankings_df, one step for the call of the ranker      *)
(*             program and one for reading and merging what it wrote.      *)
(*                                                                         *)
(* Text is modelled by tokens: a header value is the sequence of its       *)
(* whitespace-separated tokens, the Week value the sequence of its         *)
(* characters, a date the three numbers of MM/DD/YYYY, a box score the     *)
(* number of lines equal to each section label plus the tokens the parser  *)
(* reads.                                                                  *)
(***************************************************************************)
EXTENDS Integers, Sequences, FiniteSets, TLC

VARIABLES
    pc,                             \* "reading" | "error" | "returned"
    nfiles,                         \* report files read so far
    report,                         \* content of the file read last
    error,                          \* message of the ValueError raised, "" if none
    games_df,
    player_rushing_stats_df,
    player_receiving_stats_df,
    player_passing_stats_df,
    player_defensive_stats_df,
    player_kicking_stats_df,
    player_returning_stats_df,
    player_of_the_game_stats_df,
    returned,                       \* what read_game_files returned, <<>> if nothing
    content,                        \* argument of parse_whatifsports_box_score
    parsed,                         \* its outcome, <<>> before the call
    files,                          \* the report files of Scores/, in listing order
    season_week,                    \* argument week of compile_season_stats
    season,                         \* what compile_season_stats returned, <<>> if nothing
    rank_pc,                        \* "idle" | "seeding" | "ranking" | "reading" |
                                    \* "returned" | "raised"
    rank_error,                     \* message of the exception raised, "" if none
    ranking_Games,                  \* argument Games of create_rankings_df
    Season_Scores_For_Ranking,      \* rows of Season-Scores-For-Ranking.csv
    scores_writes,                  \* times that file was written
    ranker,                         \* calls of the ranker program so far, the week
                                    \* argument and the exit status of the last
    Ranking_Output_csv,             \* Ranking-Output.csv as the last call left it
    initialRankingPoints,           \* that column of TeamInfo, by team id
    ranking_week,                   \* loop variable week of create_rankings_df
    Ranking_Output,                 \* Ranking-Output.csv as read last
    weeks_ranking_df,               \* the same after update_ranks_to_have_tied_ranks
    rankings_df                     \* rows of teamName, week1 and the column written last

tables == <<games_df, player_rushing_stats_df, player_receiving_stats_df,
            player_passing_stats_df, player_defensive_stats_df,
            player_kicking_stats_df, player_returning_stats_df,
            player_of_the_game_stats_df>>

readVars == <<pc, nfiles, report, error, tables, returned>>

parseVars == <<content, parsed>>

seasonVars == <<files, season_week, season>>

rankVars == <<rank_pc, rank_error, ranking_Games, Season_Scores_For_Ranking,
              scores_writes, ranker, Ranking_Output_csv, initialRankingPoints,
              ranking_week, Ranking_Output, weeks_ranking_df, rankings_df>>

vars == <<readVars, parseVars, seasonVars, rankVars>>

\* ------------------------------------------------------------- bounds

\* Report files in the Scores directory of one run.
MaxFiles == 2

\* Largest number of lines equal to one section label in a box score.
MaxLabelCount == 3

\* ------------------------------------------------------ reference data

\* The table read_teams_file returns: ids are unique, A has one returner for
\* kicks and punts, B has two, F is an FCS team.
TeamInfo ==
    << [id |-> "A", whatifsportsName |-> "Alpha", conferenceID |-> "SEC",
        kickReturnerName |-> "Ka", puntReturnerName |-> "Ka"],
       [id |-> "B", whatifsportsName |-> "Beta", conferenceID |-> "B1G",
        kickReturnerName |-> "Kb", puntReturnerName |-> "Pb"],
       [id |-> "F", whatifsportsName |-> "Foxes", conferenceID |-> "FCS",
        kickReturnerName |-> "Kf", puntReturnerName |-> "Pf"],
       [id |-> "C", whatifsportsName |-> "Gamma", conferenceID |-> "SEC",
        kickReturnerName |-> "Kc", puntReturnerName |-> "Pc"] >>

\* TeamInfo['id'].values
TeamIds == {TeamInfo[i].id : i \in DOMAIN TeamInfo}

\* TeamInfo['whatifsportsName'].values
WhatifsportsNames == {TeamInfo[i].whatifsportsName : i \in DOMAIN TeamInfo}

\* TeamInfo[TeamInfo['conferenceID'] == 'FCS']['id']
FCSIds == {TeamInfo[i].id : i \in {j \in DOMAIN TeamInfo : TeamInfo[j].conferenceID = "FCS"}}

\* TeamInfo[TeamInfo['id'] == x] ... .values[0]: the first row with that id
TeamById(x) ==
    TeamInfo[CHOOSE i \in DOMAIN TeamInfo :
                /\ TeamInfo[i].id = x
                /\ \A j \in 1..(i - 1) : TeamInfo[j].id # x]

\* TeamInfo[TeamInfo['whatifsportsName'] == n]['id'].values[0]
TeamIdByWhatifsportsName(n) ==
    TeamInfo[CHOOSE i \in DOMAIN TeamInfo :
                /\ TeamInfo[i].whatifsportsName = n
                /\ \A j \in 1..(i - 1) : TeamInfo[j].whatifsportsName # n].id

\* ------------------------------------------------------------ helpers

RECURSIVE SumSeq(_)
SumSeq(s) == IF s = <<>> THEN 0 ELSE Head(s) + SumSeq(Tail(s))

Range(s) == {s[i] : i \in DOMAIN s}

\* ---------------------------------------- parse_whatifsports_box_score

\* The five section labels, in the order the parser counts them.
SectionLabels == <<"Rushing", "Receiving", "Passing", "Defensive", "Field Goals">>

\* len(re.findall(r'^<label>$', content, re.MULTILINE)) != 2, label by label:
\* the first label whose count is not 2, "" when every count is 2.
SectionLabelErrorSkipsLast(c) ==
    LET bad == {i \in 1..(Len(SectionLabels) - 1) : c.labels[SectionLabels[i]] # 2}
    IN  IF bad = {} THEN ""
        ELSE SectionLabels[CHOOSE i \in bad : \A j \in bad : i <= j]

SectionLabelError(c) ==
    LET bad == {i \in DOMAIN SectionLabels : c.labels[SectionLabels[i]] # 2}
    IN  IF bad = {} THEN ""
        ELSE SectionLabels[CHOOSE i \in bad : \A j \in bad : i <= j]

\* The anchor lines of lines 192-346 and 525-551, in the order in which the
\* parser searches for them.
AnchorLabels ==
    << "Final -", "First Downs", "- Rushing", "- Passing", "- Penalty", "3rd Down Eff",
       "4th Down Eff", "Rushes-Yards", "Comp-Att-Int", "Passing Yards", "Sacks-Yards",
       "Fumbles-Lost", "Punts-Avg", "KR-Avg", "PR-Avg", "Penalties-Yard",
       "Time of Possession", "Player of the Game" >>

\* A test that would let through a token that is not a number.
AnchorFailsUnlessNumber(state) == state \in {"absent", "no token"}

\* What a box score says of an anchor is "ok", "absent" (no line starts with
\* the label), "no token" (a token the parser indexes is not there) or
\* "not a number" (the token is there, int, float or strptime refuse it).
\* Each but the first makes the statements of the anchor raise.
AnchorFails(state) == state # "ok"

\* The exception of a failing anchor: re.search gives None and .group raises
\* AttributeError, an index past the tokens raises IndexError, and int,
\* float and strptime raise ValueError. None of the messages has the label.
AnchorError(label, state) ==
    CASE state = "absent" -> "AttributeError: 'NoneType' object has no attribute 'group'"
      [] state = "no token" -> "IndexError: list index out of range"
      [] state = "not a number" ->
            IF label = "Time of Possession"
            THEN "ValueError: time data does not match format '%M:%S'"
            ELSE "ValueError: invalid literal for int() with base 10"

\* The first anchor in the order of the code that fails, 0 if none does.
FirstBadAnchor(c) ==
    IF \A k \in DOMAIN AnchorLabels : ~AnchorFails(c.anchors[AnchorLabels[k]]) THEN 0
    ELSE CHOOSE k \in DOMAIN AnchorLabels :
            /\ AnchorFails(c.anchors[AnchorLabels[k]])
            /\ \A j \in 1..(k - 1) : ~AnchorFails(c.anchors[AnchorLabels[j]])

\* Yards of a "{count}-{avg}" token with the fraction cut off.
AvgTimesCountCut(tok) == (tok[1] * tok[2]) \div 10

\* round(float(avg) * count) of a "{count}-{avg}" token; avg is given in
\* tenths. Python rounds a half to the even neighbour. For counts below 15
\* and averages below 100.0 the float product rounds as the exact one does.
AvgTimesCount(tok) ==
    LET p == tok[1] * tok[2]
        q == p \div 10
        r == p % 10
    IN  IF r > 5 THEN q + 1
        ELSE IF r < 5 THEN q
        ELSE IF q % 2 = 1 THEN q + 1 ELSE q

\* The fields extracted once the label counts are accepted.
ExtractFields(c) ==
    [ awayTeamScore |-> c.awayScore,
      homeTeamScore |-> c.homeScore,
      awayTeamPunts |-> c.puntsAway[1],
      awayTeamPuntYards |-> AvgTimesCount(c.puntsAway),
      homeTeamPunts |-> c.puntsHome[1],
      homeTeamPuntYards |-> AvgTimesCount(c.puntsHome),
      awayTeamKickReturns |-> c.krAway[1],
      awayTeamKickReturnYards |-> AvgTimesCount(c.krAway),
      homeTeamKickReturns |-> c.krHome[1],
      homeTeamKickReturnYards |-> AvgTimesCount(c.krHome),
      awayTeamPuntReturns |-> c.prAway[1],
      awayTeamPuntReturnYards |-> AvgTimesCount(c.prAway),
      homeTeamPuntReturns |-> c.prHome[1],
      homeTeamPuntReturnYards |-> AvgTimesCount(c.prHome),
      playerAwayRushingStats |-> c.players.rushing.away,
      playerHomeRushingStats |-> c.players.rushing.home,
      playerAwayReceivingStats |-> c.players.receiving.away,
      playerHomeReceivingStats |-> c.players.receiving.home,
      playerAwayPassingStats |-> c.players.passing.away,
      playerHomePassingStats |-> c.players.passing.home,
      playerAwayDefensiveStats |-> c.players.defensive.away,
      playerHomeDefensiveStats |-> c.players.defensive.home,
      playerAwayKickingStats |-> c.players.kicking.away,
      playerHomeKickingStats |-> c.players.kicking.home,
      playerOfTheGame |-> c.potgName,
      playerOfTheGameTeamName |-> c.potgTeam ]

\* The index in AnchorLabels of the last anchor that must have passed for a
\* field of game_data to be stored; the player tables of lines 348-523 come
\* after 'Time of Possession', the one of lines 525-538 needs the line
\* 'Player of the Game'.
FieldAnchor(field) ==
    CASE field \in {"awayTeamScore", "homeTeamScore"} -> 1
      [] field \in {"awayTeamPunts", "awayTeamPuntYards",
                    "homeTeamPunts", "homeTeamPuntYards"} -> 13
      [] field \in {"awayTeamKickReturns", "awayTeamKickReturnYards",
                    "homeTeamKickReturns", "homeTeamKickReturnYards"} -> 14
      [] field \in {"awayTeamPuntReturns", "awayTeamPuntReturnYards",
                    "homeTeamPuntReturns", "homeTeamPuntReturnYards"} -> 15
      [] field \in {"playerHomeKickingStats", "playerOfTheGame",
                    "playerOfTheGameTeamName"} -> 18
      [] OTHER -> 17

\* game_data when the anchor k raises: the fields stored before it.
FieldsBefore(fields, k) ==
    [f \in {g \in DOMAIN fields : FieldAnchor(g) < k} |-> fields[f]]

\* The call when the label counts are accepted.
ParseAnchors(c, k) ==
    IF k # 0
    THEN [raised |-> AnchorError(AnchorLabels[k], c.anchors[AnchorLabels[k]]),
          section |-> "", game_data |-> FieldsBefore(ExtractFields(c), k)]
    ELSE [raised |-> "", section |-> "", game_data |-> ExtractFields(c)]

\* The outcome of one call: the exception raised ("" if none), the section
\* label its message names, and game_data as it stands when the call ends;
\* the call returns game_data only if nothing is raised.
parse_whatifsports_box_score(c) ==
    LET bad == SectionLabelError(c)
    IN  IF bad # ""
        THEN [raised |-> "Content does not contain 2 lines starting with",
              section |-> bad, game_data |-> <<>>]
        ELSE ParseAnchors(c, FirstBadAnchor(c))

\* ------------------------------------------------ read_game_files: header

\* The labelled header lines of a report.
HeaderLabels == {"Matchup", "Significance", "Bowl Name", "Date", "Week"}

Digits == {"0", "1", "2", "3", "4", "5", "6", "7", "8", "9"}

DigitValue ==
    ("0" :> 0) @@ ("1" :> 1) @@ ("2" :> 2) @@ ("3" :> 3) @@ ("4" :> 4) @@
    ("5" :> 5) @@ ("6" :> 6) @@ ("7" :> 7) @@ ("8" :> 8) @@ ("9" :> 9)

\* str.isdigit(): not empty and every character a digit
isdigit(w) == Len(w) > 0 /\ \A i \in DOMAIN w : w[i] \in Digits

\* int(w) of a string of digits
RECURSIVE int(_)
int(w) ==
    IF w = <<>> THEN 0
    ELSE 10 * int(SubSeq(w, 1, Len(w) - 1)) + DigitValue[w[Len(w)]]

\* week_pattern: ^Week:\s*(\d+|bowl)$
week_pattern(w) == isdigit(w) \/ w = <<"b", "o", "w", "l">>

\* date_pattern: ^Date:\s*(\d{2}/\d{2}/\d{4})$
date_pattern(d) == d.fmt

DaysInMonth(mm, yyyy) ==
    IF mm \in {4, 6, 9, 11} THEN 30
    ELSE IF mm = 2
         THEN (IF yyyy % 4 = 0 /\ (yyyy % 100 # 0 \/ yyyy % 400 = 0) THEN 29 ELSE 28)
         ELSE 31

\* datetime.strptime(date, '%m/%d/%Y') succeeds
strptime_ok(d) ==
    /\ d.mm \in 1..12
    /\ d.yyyy \in 1..9999
    /\ d.dd \in 1..DaysInMonth(d.mm, d.yyyy)

\* game_date.strftime('%Y%m%d')
strftime(d) == d.yyyy * 10000 + d.mm * 100 + d.dd

\* The tokens that contain the character '@', and the substring 'vs'.
AtTokens == {"@", "A@B"}

VsTokens == {"vs"}

\* '@' in matchup / 'vs' in matchup
ContainsAt(m) == \E i \in DOMAIN m : m[i] \in AtTokens

ContainsVs(m) == \E i \in DOMAIN m : m[i] \in VsTokens

\* The places re.split(r'\s+<sep>\s+', matchup) splits at: a separator token
\* with whitespace on both sides, so neither the first nor the last token.
SplitPlaces(m, sep) == {i \in 2..(Len(m) - 1) : m[i] = sep}

\* A piece of the split as the string it is; ids are single tokens, so a
\* piece of several tokens is a string that is no id.
Join(p) ==
    IF p = <<>> THEN "" ELSE IF Len(p) = 1 THEN p[1] ELSE "<several tokens>"

\* Lines 676-683. unpack: the split gave other than two pieces, so the tuple
\* assignment raises; away/home are None ("") when no separator is found.
SplitMatchup(m) ==
    LET sep == IF ContainsAt(m) THEN "@" ELSE IF ContainsVs(m) THEN "vs" ELSE ""
        at == SplitPlaces(m, sep)
        i == CHOOSE k \in at : TRUE
    IN  IF sep = ""
        THEN [unpack |-> FALSE, away_team |-> "", home_team |-> "",
              isNeutralSiteGame |-> FALSE]
        ELSE IF Cardinality(at) # 1
        THEN [unpack |-> TRUE, away_team |-> "", home_team |-> "",
              isNeutralSiteGame |-> FALSE]
        ELSE [unpack |-> FALSE,
              away_team |-> Join(SubSeq(m, 1, i - 1)),
              home_team |-> Join(SubSeq(m, i + 1, Len(m))),
              isNeutralSiteGame |-> (sep = "vs")]

\* Line 686, the two membership tests.
TeamsKnownAwayOnly(away_team, home_team) == away_team \in TeamIds

TeamsKnown(away_team, home_team) ==
    away_team \in TeamIds /\ home_team \in TeamIds

\* Line 636.
accepted_significance_hyphen ==
    {"non-conference", "conference", "conference-championship", "postseason"}

accepted_significance ==
    {"non-conference", "conference", "conference championship", "postseason"}

\* Line 694: significance != 'postseason' and bowl_name
BowlNameNeverRejected(significance, bowl_name) == FALSE

BowlNameRejected(significance, bowl_name) ==
    significance # "postseason" /\ bowl_name # <<>>

\* Line 704, negated: week.isdigit() and 1 <= int(week) <= 17
FirstWeek == 1

LastWeek == 17

WeekAcceptedBowl(week) ==
    \/ isdigit(week) /\ FirstWeek <= int(week) /\ int(week) <= LastWeek - 1
    \/ week = <<"b", "o", "w", "l">>

WeekAccepted(week) ==
    isdigit(week) /\ FirstWeek <= int(week) /\ int(week) <= LastWeek

\* Line 706.
week_played(week) == IF isdigit(week) THEN int(week) ELSE 16

\* Lines 655-706: the ValueError the header raises, "" if none.
HeaderError(r) ==
    LET m == SplitMatchup(r.matchup)
    IN  IF \/ r.fields # HeaderLabels
           \/ ~date_pattern(r.date)
           \/ ~week_pattern(r.week)
        THEN "Missing required information"
        ELSE IF m.unpack THEN "values to unpack"
        ELSE IF m.away_team = "" \/ m.home_team = "" THEN "Invalid matchup format"
        ELSE IF ~TeamsKnown(m.away_team, m.home_team) THEN "Invalid team name in matchup"
        ELSE IF r.significance \notin accepted_significance
        THEN "Invalid significance value"
        ELSE IF BowlNameRejected(r.significance, r.bowl) THEN "Bowl Name should be empty"
        ELSE IF ~strptime_ok(r.date) THEN "Invalid date format"
        ELSE IF ~WeekAccepted(r.week) THEN "Invalid week value"
        ELSE ""

\* ---------------------------------------- read_game_files: the tables

\* Lines 718-730: winner and loser by comparing the two final scores; tie
\* is the ValueError of line 730.
WinnerTieToAway(away_team, home_team, awayTeamScore, homeTeamScore) ==
    IF awayTeamScore >= homeTeamScore
    THEN [tie |-> FALSE,
          winningTeamName |-> away_team, losingTeamName |-> home_team,
          winningTeamScore |-> awayTeamScore, losingTeamScore |-> homeTeamScore]
    ELSE [tie |-> FALSE,
          winningTeamName |-> home_team, losingTeamName |-> away_team,
          winningTeamScore |-> homeTeamScore, losingTeamScore |-> awayTeamScore]

Winner(away_team, home_team, awayTeamScore, homeTeamScore) ==
    IF awayTeamScore > homeTeamScore
    THEN [tie |-> FALSE,
          winningTeamName |-> away_team, losingTeamName |-> home_team,
          winningTeamScore |-> awayTeamScore, losingTeamScore |-> homeTeamScore]
    ELSE IF awayTeamScore < homeTeamScore
    THEN [tie |-> FALSE,
          winningTeamName |-> home_team, losingTeamName |-> away_team,
          winningTeamScore |-> homeTeamScore, losingTeamScore |-> awayTeamScore]
    ELSE [tie |-> TRUE,
          winningTeamName |-> "", losingTeamName |-> "",
          winningTeamScore |-> 0, losingTeamScore |-> 0]

\* Line 718.
game_id(away_team, home_team, game_date) ==
    <<away_team, home_team, strftime(game_date)>>

\* Lines 732-808: the row appended to games_df.
game_data(r, d) ==
    LET m == SplitMatchup(r.matchup)
        w == Winner(m.away_team, m.home_team, d.awayTeamScore, d.homeTeamScore)
    IN  [ gameID |-> game_id(m.away_team, m.home_team, r.date),
          awayTeamName |-> m.away_team,
          homeTeamName |-> m.home_team,
          isNeutralSiteGame |-> m.isNeutralSiteGame,
          gameSignificance |-> r.significance,
          gameDate |-> [mm |-> r.date.mm, dd |-> r.date.dd, yyyy |-> r.date.yyyy],
          weekPlayed |-> week_played(r.week),
          winningTeamName |-> w.winningTeamName,
          losingTeamName |-> w.losingTeamName,
          awayTeamScore |-> d.awayTeamScore,
          homeTeamScore |-> d.homeTeamScore,
          winningTeamScore |-> w.winningTeamScore,
          losingTeamScore |-> w.losingTeamScore,
          awayTeamKickReturns |-> d.awayTeamKickReturns,
          homeTeamKickReturns |-> d.homeTeamKickReturns,
          awayTeamKickReturnYards |-> d.awayTeamKickReturnYards,
          homeTeamKickReturnYards |-> d.homeTeamKickReturnYards,
          awayTeamPuntReturns |-> d.awayTeamPuntReturns,
          homeTeamPuntReturns |-> d.homeTeamPuntReturns,
          awayTeamPuntReturnYards |-> d.awayTeamPuntReturnYards,
          homeTeamPuntReturnYards |-> d.homeTeamPuntReturnYards,
          playerOfTheGame |-> d.playerOfTheGame,
          playerOfTheGameTeamName |-> d.playerOfTheGameTeamName ]

\* df[~df['teamName'].isin(TeamInfo[TeamInfo['conferenceID'] == 'FCS']['id'])]
KeepAllRows(df) == df

DropFCS(df) == SelectSeq(df, LAMBDA row : row.teamName \notin FCSIds)

\* player_stats['gameID'] = game_id; player_stats['teamName'] = team, row by row
Stamp(rows, gid, team) ==
    [i \in DOMAIN rows |-> rows[i] @@ [gameID |-> gid, teamName |-> team]]

\* Lines 813-871, one of the five parsed tables: the away rows, the home
\* rows, then the FCS rows of the whole table dropped.
AppendPlayerStats(df, awayRows, homeRows, gid, away_team, home_team) ==
    DropFCS(df \o Stamp(awayRows, gid, away_team) \o Stamp(homeRows, gid, home_team))

\* Lines 876-917 and 920-961: the returning rows of one team.
ReturningRows(gid, team, kickReturns, kickReturnYards, puntReturns, puntReturnYards) ==
    LET t == TeamById(team)
    IN  IF t.kickReturnerName = t.puntReturnerName
        THEN << [gameID |-> gid, playerName |-> t.kickReturnerName, teamName |-> team,
                 kickReturns |-> kickReturns, kickReturnYards |-> kickReturnYards,
                 kickReturnTouchdowns |-> 0,
                 puntReturns |-> puntReturns, puntReturnYards |-> puntReturnYards,
                 puntReturnTouchdowns |-> 0] >>
        ELSE << [gameID |-> gid, playerName |-> t.kickReturnerName, teamName |-> team,
                 kickReturns |-> kickReturns, kickReturnYards |-> kickReturnYards,
                 kickReturnTouchdowns |-> 0,
                 puntReturns |-> 0, puntReturnYards |-> 0,
                 puntReturnTouchdowns |-> 0],
                [gameID |-> gid, playerName |-> t.puntReturnerName, teamName |-> team,
                 kickReturns |-> 0, kickReturnYards |-> 0,
                 kickReturnTouchdowns |-> 0,
                 puntReturns |-> puntReturns, puntReturnYards |-> puntReturnYards,
                 puntReturnTouchdowns |-> 0] >>

\* Lines 873-917: the away team's returning rows appended.
AppendAwayReturning(df, g) ==
    df \o ReturningRows(g.gameID, g.awayTeamName,
                        g.awayTeamKickReturns, g.awayTeamKickReturnYards,
                        g.awayTeamPuntReturns, g.awayTeamPuntReturnYards)

\* Lines 919-964: the home team's returning rows appended, then the FCS rows
\* of the whole table dropped.
AppendHomeReturning(df, g) ==
    DropFCS(df \o ReturningRows(g.gameID, g.homeTeamName,
                                g.homeTeamKickReturns, g.homeTeamKickReturnYards,
                                g.homeTeamPuntReturns, g.homeTeamPuntReturnYards))

\* Lines 971-981.
AppendPlayerOfTheGame(df, g) ==
    DropFCS(Append(df, [gameID |-> g.gameID, playerName |-> g.playerOfTheGame,
                        teamName |-> TeamIdByWhatifsportsName(g.playerOfTheGameTeamName),
                        playerOfTheGameAwards |-> 1]))

\* Line 811.
AppendGameSkipped(df, g) == df

AppendGame(df, g) == Append(df, g)

\* Lines 810-871: the tables once the Game row g and the parsed player rows
\* of d are appended.
AppendReport(T, d, g) ==
    [ games |-> AppendGame(T.games, g),
      rushing |-> AppendPlayerStats(T.rushing, d.playerAwayRushingStats,
                      d.playerHomeRushingStats, g.gameID, g.awayTeamName, g.homeTeamName),
      receiving |-> AppendPlayerStats(T.receiving, d.playerAwayReceivingStats,
                      d.playerHomeReceivingStats, g.gameID, g.awayTeamName, g.homeTeamName),
      passing |-> AppendPlayerStats(T.passing, d.playerAwayPassingStats,
                      d.playerHomePassingStats, g.gameID, g.awayTeamName, g.homeTeamName),
      defensive |-> AppendPlayerStats(T.defensive, d.playerAwayDefensiveStats,
                      d.playerHomeDefensiveStats, g.gameID, g.awayTeamName, g.homeTeamName),
      kicking |-> AppendPlayerStats(T.kicking, d.playerAwayKickingStats,
                      d.playerHomeKickingStats, g.gameID, g.awayTeamName, g.homeTeamName),
      returning |-> T.returning,
      potg |-> T.potg ]

\* Lines 873-981 on the tables T1 of line 871: the returning rows of the
\* away team, those of the home team, the check of the player of the game's
\* team name and its row. A team id that TeamInfo lacks makes .values[0] of
\* lines 876 and 920 raise.
AppendReturningAndPlayerOfTheGame(T1, g) ==
    IF g.awayTeamName \notin TeamIds
    THEN [error |-> "index 0 is out of bounds", tables |-> T1]
    ELSE IF g.homeTeamName \notin TeamIds
    THEN [error |-> "index 0 is out of bounds",
          tables |-> [T1 EXCEPT !.returning = AppendAwayReturning(T1.returning, g)]]
    ELSE IF g.playerOfTheGameTeamName \notin WhatifsportsNames
    THEN [error |-> "Invalid player of the game team name",
          tables |-> [T1 EXCEPT !.returning =
                         AppendHomeReturning(AppendAwayReturning(T1.returning, g), g)]]
    ELSE [error |-> "",
          tables |-> [T1 EXCEPT !.returning =
                         AppendHomeReturning(AppendAwayReturning(T1.returning, g), g),
                                !.potg = AppendPlayerOfTheGame(T1.potg, g)]]

\* Lines 717-981 for the fields d of the box score: the tie of line 730,
\* else the Game row g of lines 732-808 and the appends.
AppendGameData(T, d, g) ==
    IF Winner(g.awayTeamName, g.homeTeamName, d.awayTeamScore, d.homeTeamScore).tie
    THEN [error |-> "away score and home score are equal", tables |-> T]
    ELSE AppendReturningAndPlayerOfTheGame(AppendReport(T, d, g), g)

\* Lines 708-981 for the outcome box of the parser's call.
AppendParsed(r, T, box) ==
    IF box.raised # "" THEN [error |-> box.raised, tables |-> T]
    ELSE AppendGameData(T, box.game_data, game_data(r, box.game_data))

\* Lines 645-981, the body of the loop for one report r with the tables T:
\* the error raised ("" if none) and the tables as they stand then.
read_game_file(r, T) ==
    IF HeaderError(r) # "" THEN [error |-> HeaderError(r), tables |-> T]
    ELSE AppendParsed(r, T, parse_whatifsports_box_score(r.box))

\* ---------------------------------------------------- read_game_files

\* Lines 626-633: the eight empty DataFrames.
EmptyTables ==
    [ games |-> <<>>, rushing |-> <<>>, receiving |-> <<>>, passing |-> <<>>,
      defensive |-> <<>>, kicking |-> <<>>, returning |-> <<>>, potg |-> <<>> ]

\* Lines 983-985: the check before the return.
FinalCheck(T) ==
    IF \E i \in DOMAIN T.games :
          T.games[i].winningTeamScore <= T.games[i].losingTeamScore
    THEN [error |-> "Winning team score must be greater than losing team score",
          tables |-> T]
    ELSE [error |-> "", tables |-> T]

\* Lines 639-996 over the files fs in listing order, from the tables T: the
\* loop stops at the first ValueError.
RECURSIVE ReadFiles(_, _)
RECURSIVE ReadRest(_, _)
ReadFiles(fs, T) ==
    IF fs = <<>> THEN FinalCheck(T)
    ELSE ReadRest(Tail(fs), read_game_file(Head(fs), T))

ReadRest(fs, out) ==
    IF out.error # "" THEN out ELSE ReadFiles(fs, out.tables)

\* One whole call: the error raised ("" if none) and the tables then.
read_game_files(fs) == ReadFiles(fs, EmptyTables)

\* ------------------------------------------------ compile_season_stats

\* Line 1139.
GamesBeforeWeek(Games, w) == SelectSeq(Games, LAMBDA g : g.weekPlayed < w)

GamesUpToWeek(Games, w) == SelectSeq(Games, LAMBDA g : g.weekPlayed <= w)

\* df[col].sum() and df[col].max()
SumColumn(df, col) == SumSeq([i \in DOMAIN df |-> df[i][col]])

LastOfColumn(df, col) == df[Len(df)][col]

MaxColumn(df, col) ==
    CHOOSE m \in {df[i][col] : i \in DOMAIN df} : \A i \in DOMAIN df : df[i][col] <= m

\* The Games columns of the home and of the away team.
HomeColumn ==
    [ KickReturns |-> "homeTeamKickReturns", KickReturnYards |-> "homeTeamKickReturnYards",
      PuntReturns |-> "homeTeamPuntReturns", PuntReturnYards |-> "homeTeamPuntReturnYards" ]

AwayColumn ==
    [ KickReturns |-> "awayTeamKickReturns", KickReturnYards |-> "awayTeamKickReturnYards",
      PuntReturns |-> "awayTeamPuntReturns", PuntReturnYards |-> "awayTeamPuntReturnYards" ]

\* Games[Games['homeTeamName'] == x] and Games[Games['awayTeamName'] == x]
HomeGames(Games, x) == SelectSeq(Games, LAMBDA g : g.homeTeamName = x)

AwayGames(Games, x) == SelectSeq(Games, LAMBDA g : g.awayTeamName = x)

\* Lines 1163-1335, an offensive counter: the home column of the games at
\* home plus the away column of the games away.
OwnCounter(Games, x, field) ==
    SumColumn(HomeGames(Games, x), HomeColumn[field])
    + SumColumn(AwayGames(Games, x), AwayColumn[field])

\* A defensive counter that would read the team's own side of each game.
OpponentCounterOwnSide(Games, x, field) ==
    SumColumn(HomeGames(Games, x), HomeColumn[field])
    + SumColumn(AwayGames(Games, x), AwayColumn[field])

\* Lines 1337-1491, a defensive counter: the away column of the games at
\* home plus the home column of the games away.
OpponentCounter(Games, x, field) ==
    SumColumn(HomeGames(Games, x), AwayColumn[field])
    + SumColumn(AwayGames(Games, x), HomeColumn[field])

\* Lines 1145-1161 and the counters of lines 1285-1311 and 1459-1485 for the
\* team x over the games of line 1139.
TeamSeasonRow(Games, x) ==
    [ id |-> x,
      numGamesPlayed |->
          Len(SelectSeq(Games, LAMBDA g : g.awayTeamName = x \/ g.homeTeamName = x)),
      numWins |-> Len(SelectSeq(Games, LAMBDA g : g.winningTeamName = x)),
      numLosses |-> Len(SelectSeq(Games, LAMBDA g : g.losingTeamName = x)),
      numConferenceWins |->
          Len(SelectSeq(Games, LAMBDA g : g.winningTeamName = x
                                          /\ g.gameSignificance = "conference")),
      numConferenceLosses |->
          Len(SelectSeq(Games, LAMBDA g : g.losingTeamName = x
                                          /\ g.gameSignificance = "conference")),
      numKickReturns |-> OwnCounter(Games, x, "KickReturns"),
      numKickReturnYards |-> OwnCounter(Games, x, "KickReturnYards"),
      numPuntReturns |-> OwnCounter(Games, x, "PuntReturns"),
      numPuntReturnYards |-> OwnCounter(Games, x, "PuntReturnYards"),
      numKickReturnsByOpponents |-> OpponentCounter(Games, x, "KickReturns"),
      numKickReturnYardsAllowed |-> OpponentCounter(Games, x, "KickReturnYards"),
      numPuntReturnsByOpponents |-> OpponentCounter(Games, x, "PuntReturns"),
      numPuntReturnYardsAllowed |-> OpponentCounter(Games, x, "PuntReturnYards") ]

\* Line 1142: TeamInfo[TeamInfo['conferenceID'] != 'FCS']['id']
NonFCSTeams == SelectSeq(TeamInfo, LAMBDA t : t.conferenceID # "FCS")

\* The TeamSeasonStats rows, one per non-FCS team in the order of TeamInfo.
TeamSeasonRows(Games) ==
    [k \in DOMAIN NonFCSTeams |-> TeamSeasonRow(Games, NonFCSTeams[k].id)]

\* Line 1154: some row has numWins + numLosses != numGamesPlayed
WinsLossesNeverChecked(TeamSeasonStats) == FALSE

WinsLossesMismatch(TeamSeasonStats) ==
    \E k \in DOMAIN TeamSeasonStats :
        TeamSeasonStats[k].numWins + TeamSeasonStats[k].numLosses
            # TeamSeasonStats[k].numGamesPlayed

\* df[['playerName', 'teamName']].drop_duplicates(): the pairs in the order
\* of their first rows.
PlayerTeam(row) == [playerName |-> row.playerName, teamName |-> row.teamName]

AppendIfNew(pairs, x) == IF x \in Range(pairs) THEN pairs ELSE Append(pairs, x)

RECURSIVE drop_duplicates(_)
drop_duplicates(df) ==
    IF df = <<>> THEN <<>>
    ELSE AppendIfNew(drop_duplicates(SubSeq(df, 1, Len(df) - 1)), PlayerTeam(df[Len(df)]))

\* df[(df['playerName'] == x['playerName']) & (df['teamName'] == x['teamName'])]
RowsOf(df, x) ==
    SelectSeq(df, LAMBDA row : row.playerName = x.playerName /\ row.teamName = x.teamName)

\* Lines 1577-1618: the tests of the four distance ranges.
Is0To29(y) == y <= 29

Is30To39Exclusive(y) == y > 30 /\ y <= 39

Is30To39(y) == y >= 30 /\ y <= 39

Is40To49(y) == y >= 40 /\ y <= 49

Is50Plus(y) == y >= 50

\* rows[col].apply(lambda x: len(x)).sum()
SumOfLengths(rows, col) == SumSeq([i \in DOMAIN rows |-> Len(rows[i][col])])

\* The test of the range named.
InRange(range, y) ==
    CASE range = "0To29" -> Is0To29(y)
      [] range = "30To39" -> Is30To39(y)
      [] range = "40To49" -> Is40To49(y)
      [] range = "50Plus" -> Is50Plus(y)

\* rows[col].apply(lambda x: len([y for y in x if <test>])).sum()
SumOfMatches(rows, col, range) ==
    SumSeq([i \in DOMAIN rows |-> Len(SelectSeq(rows[i][col], LAMBDA y : InRange(range, y)))])

\* Lines 1493-1514, 1516-1541, 1543-1564, 1566-1575, 1620-1645, 1647-1652:
\* the season row of the pair x from its rows of the game table.
PlayerSeasonRushingRow(rows, x) ==
    [ playerName |-> x.playerName, teamName |-> x.teamName,
      carries |-> SumColumn(rows, "carries"),
      rushingYards |-> SumColumn(rows, "rushingYards"),
      longestRush |-> MaxColumn(rows, "longestRush") ]

PlayerSeasonReceivingRow(rows, x) ==
    [ playerName |-> x.playerName, teamName |-> x.teamName,
      receptions |-> SumColumn(rows, "receptions"),
      receivingYards |-> SumColumn(rows, "receivingYards"),
      longestReception |-> MaxColumn(rows, "longestReception") ]

PlayerSeasonPassingRow(rows, x) ==
    [ playerName |-> x.playerName, teamName |-> x.teamName,
      passCompletions |-> SumColumn(rows, "passCompletions"),
      passingYards |-> SumColumn(rows, "passingYards") ]

PlayerSeasonDefensiveRow(rows, x) ==
    [ playerName |-> x.playerName, teamName |-> x.teamName,
      sacks |-> SumColumn(rows, "sacks"),
      interceptions |-> SumColumn(rows, "interceptions") ]

\* Lines 1577-1618.
PlayerSeasonKickingRow(rows, x) ==
    [ playerName |-> x.playerName, teamName |-> x.teamName,
      fieldGoalsMade |-> SumOfLengths(rows, "fieldGoalsMade"),
      fieldGoalsMissed |-> SumOfLengths(rows, "fieldGoalsMissed"),
      fieldGoals0To29YardsMade |-> SumOfMatches(rows, "fieldGoalsMade", "0To29"),
      fieldGoals0To29YardsMissed |-> SumOfMatches(rows, "fieldGoalsMissed", "0To29"),
      fieldGoals30To39YardsMade |-> SumOfMatches(rows, "fieldGoalsMade", "30To39"),
      fieldGoals30To39YardsMissed |-> SumOfMatches(rows, "fieldGoalsMissed", "30To39"),
      fieldGoals40To49YardsMade |-> SumOfMatches(rows, "fieldGoalsMade", "40To49"),
      fieldGoals40To49YardsMissed |-> SumOfMatches(rows, "fieldGoalsMissed", "40To49"),
      fieldGoals50PlusYardsMade |-> SumOfMatches(rows, "fieldGoalsMade", "50Plus"),
      fieldGoals50PlusYardsMissed |-> SumOfMatches(rows, "fieldGoalsMissed", "50Plus") ]

PlayerSeasonReturningRow(rows, x) ==
    [ playerName |-> x.playerName, teamName |-> x.teamName,
      kickReturns |-> SumColumn(rows, "kickReturns"),
      kickReturnYards |-> SumColumn(rows, "kickReturnYards"),
      kickReturnTouchdowns |-> SumColumn(rows, "kickReturnTouchdowns"),
      puntReturns |-> SumColumn(rows, "puntReturns"),
      puntReturnYards |-> SumColumn(rows, "puntReturnYards"),
      puntReturnTouchdowns |-> SumColumn(rows, "puntReturnTouchdowns") ]

PlayerSeasonPlayerOfTheGameRow(rows, x) ==
    [ playerName |-> x.playerName, teamName |-> x.teamName,
      playerOfTheGameAwards |-> SumColumn(rows, "playerOfTheGameAwards") ]

\* One season table: a row per pair of drop_duplicates, computed from the
\* whole game table df by SeasonRow.
SeasonRow(table, rows, x) ==
    CASE table = "rushing" -> PlayerSeasonRushingRow(rows, x)
      [] table = "receiving" -> PlayerSeasonReceivingRow(rows, x)
      [] table = "passing" -> PlayerSeasonPassingRow(rows, x)
      [] table = "defensive" -> PlayerSeasonDefensiveRow(rows, x)
      [] table = "kicking" -> PlayerSeasonKickingRow(rows, x)
      [] table = "returning" -> PlayerSeasonReturningRow(rows, x)
      [] table = "potg" -> PlayerSeasonPlayerOfTheGameRow(rows, x)

SeasonRowsOf(df, pairs, table) ==
    [k \in DOMAIN pairs |-> SeasonRow(table, RowsOf(df, pairs[k]), pairs[k])]

PlayerSeasonStats(df, table) == SeasonRowsOf(df, drop_duplicates(df), table)

\* Lines 1142-1661 once Games is cut at the week: the check of line 1154,
\* then the eight tables. T holds the seven game tables of the players as
\* they were passed in.
CompileTables(TeamSeasonStats, T) ==
    IF WinsLossesMismatch(TeamSeasonStats)
    THEN [error |-> "numWins + numLosses must equal numGamesPlayed"]
    ELSE [ error |-> "",
           TeamSeasonStats |-> TeamSeasonStats,
           PlayerSeasonRushingStats |-> PlayerSeasonStats(T.rushing, "rushing"),
           PlayerSeasonReceivingStats |->
               PlayerSeasonStats(T.receiving, "receiving"),
           PlayerSeasonPassingStats |-> PlayerSeasonStats(T.passing, "passing"),
           PlayerSeasonDefensiveStats |->
               PlayerSeasonStats(T.defensive, "defensive"),
           PlayerSeasonKickingStats |-> PlayerSeasonStats(T.kicking, "kicking"),
           PlayerSeasonReturningStats |->
               PlayerSeasonStats(T.returning, "returning"),
           PlayerSeasonPlayerOfTheGameStats |->
               PlayerSeasonStats(T.potg, "potg") ]

\* compile_season_stats(week, TeamInfo, Games, PlayerGame...Stats), the
\* eight tables T as read_game_files returned them.
compile_season_stats(w, T) == CompileTables(TeamSeasonRows(GamesUpToWeek(T.games, w)), T)

\* ------------------------------------------------ create_rankings_df

\* Lines 1055 and 1067: the loop variable runs over range(2, 19), and the
\* pass of week 18 writes the column 'final'.
FirstRankingWeek == 2
LastRankingWeek == 18

\* Line 1060: the weeks whose ranker output gets tied ranks.
LastBlendedWeek == 5

\* The same test applied to every week.
TiedRanksInEveryWeek(week) == week >= FirstRankingWeek

\* Line 1060, the test week >= 2 and week <= 5.
TiedRanksInWeek(week) == week >= FirstRankingWeek /\ week <= LastBlendedWeek

\* A loop pass that would carry the raw rank of the row before, not the rank
\* of the first row with these points.
TiedRankStepFromRowAbove(st, row) ==
    IF <<row.ranking_points>> = st.previous_points
    THEN [ new_ranks |-> Append(st.new_ranks, st.current_rank),
           current_rank |-> row.rank,
           previous_points |-> st.previous_points ]
    ELSE [ new_ranks |-> Append(st.new_ranks, row.rank),
           current_rank |-> row.rank,
           previous_points |-> <<row.ranking_points>> ]

\* Lines 1005-1011, one pass of the loop over the rows. previous_points is
\* <<>> for None and <<p>> for the points p.
TiedRankStep(st, row) ==
    IF <<row.ranking_points>> = st.previous_points
    THEN [st EXCEPT !.new_ranks = Append(@, st.current_rank)]
    ELSE [ new_ranks |-> Append(st.new_ranks, row.rank),
           current_rank |-> row.rank,
           previous_points |-> <<row.ranking_points>> ]

\* Lines 1005-1011, the loop over the rows in the order of the file.
RECURSIVE TiedRankLoop(_, _)
TiedRankLoop(rows, st) ==
    IF rows = <<>> THEN st.new_ranks
    ELSE TiedRankLoop(Tail(rows), TiedRankStep(st, Head(rows)))

\* Line 1014.
WithRanks(df, new_ranks) == [i \in DOMAIN df |-> [df[i] EXCEPT !.rank = new_ranks[i]]]

\* Lines 998-1016.
update_ranks_to_have_tied_ranks(rankings_output_df) ==
    WithRanks(rankings_output_df,
              TiedRankLoop(rankings_output_df,
                           [new_ranks |-> <<>>, current_rank |-> 1, previous_points |-> <<>>]))

\* Lines 1060-1062.
AdjustedRanks(week, df) ==
    IF TiedRanksInWeek(week) THEN update_ranks_to_have_tied_ranks(df) ELSE df

\* pandas Series.rank with its default method 'average': a value's rank is
\* the mean of the positions its group of equal values takes in the sorted
\* column. With g values before the group and e in it, the mean is
\* g + (e + 1) / 2; the operator gives twice that, a whole number.
TwiceAverageRank(column, i, ascending) ==
    2 * Cardinality({j \in DOMAIN column :
                        IF ascending THEN column[j] < column[i] ELSE column[j] > column[i]})
    + Cardinality({j \in DOMAIN column : column[j] = column[i]}) + 1

\* Lines 1034 and 1086, astype(int) of a rank given as twice its value: the
\* fraction is cut off.
astype_int(twice) == twice \div 2

\* Lines 1032-1034, 1071-1086: rank, then astype(int).
IntRank(column, ascending) ==
    [i \in DOMAIN column |-> astype_int(TwiceAverageRank(column, i, ascending))]

\* Lines 1026-1028 and 1031-1034: one row per team that is not FCS, in the
\* order of TeamInfo, and week1 ranks initialRankingPoints downwards.
Week1Points(points) == [i \in DOMAIN NonFCSTeams |-> points[NonFCSTeams[i].id]]

Week1Rows(ranks) ==
    [i \in DOMAIN NonFCSTeams |->
        [teamName |-> NonFCSTeams[i].id, week1 |-> ranks[i], column |-> ranks[i]]]

Week1(points) == Week1Rows(IntRank(Week1Points(points), FALSE))

\* Lines 1036-1045, Games_copy.sort_values(by='weekPlayed'): a row goes
\* behind the rows of its week and of the weeks before.
InsertByWeek(sorted, g) ==
    SelectSeq(sorted, LAMBDA h : h.weekPlayed <= g.weekPlayed)
    \o <<g>>
    \o SelectSeq(sorted, LAMBDA h : h.weekPlayed > g.weekPlayed)

RECURSIVE SortedByWeek(_)
SortedByWeek(Games) ==
    IF Games = <<>> THEN <<>>
    ELSE InsertByWeek(SortedByWeek(SubSeq(Games, 1, Len(Games) - 1)), Games[Len(Games)])

\* Lines 1049-1053: the columns of a line of Season-Scores-For-Ranking.csv.
ScoresRow(g) ==
    << g.gameID, g.weekPlayed, g.gameDate, "", "", g.winningTeamName,
       g.winningTeamScore, "", g.losingTeamName, g.losingTeamScore, "" >>

ScoresRows(sorted) == [i \in DOMAIN sorted |-> ScoresRow(sorted[i])]

\* Lines 1036-1053: the file written for the ranker program.
ScoresCsv(Games) == ScoresRows(SortedByWeek(Games))

\* A loop that would stop before the pass of the column 'final'.
MoreWeeksButFinal(week) == week < LastRankingWeek

\* Line 1055: range(2, 19) has another week.
MoreWeeks(week) == week <= LastRankingWeek

\* The week of the column as the argument.
RankerWeekOfColumn(week) == week

\* Line 1057: the week argument {week-1} of the ranker program.
RankerWeek(week) == week - 1

\* Line 1059: pd.read_csv raises EmptyDataError for a file without a line.
ReadCsvError(file) ==
    IF file.header THEN "" ELSE "EmptyDataError: No columns to parse from file"

\* Line 1068: what the outer merge puts where a side has no row for a
\* teamName. No rank is 0.
NaN == 0

\* Line 1068: the rows of the output whose name is in no row of rankings_df.
ExtraRows(rankings, df) ==
    SelectSeq(df, LAMBDA row : \A i \in DOMAIN rankings : rankings[i].teamName # row.name)

\* Line 1068, the rows of the outer merge: those of rankings_df, then one
\* for every name of the output alone, with nothing in the columns of
\* rankings_df. The merge sorts the rows by teamName, which is the order
\* here for the teams of TeamInfo.
NaNRows(extra) ==
    [k \in DOMAIN extra |-> [teamName |-> extra[k].name, week1 |-> NaN, column |-> NaN]]

Merged(rankings, df) == rankings \o NaNRows(ExtraRows(rankings, df))

\* Line 1068: the team of the merged row has no row in the output, and
\* its rank is NaN.
RankIsNaN(df, teamName) == \A j \in DOMAIN df : df[j].name # teamName

\* A test that would see a NaN in the weeks that blend alone.
ColumnHasNaNInBlend(week, merged, df) ==
    \E i \in DOMAIN merged :
        /\ week <= LastBlendedWeek
        /\ RankIsNaN(df, merged[i].teamName) \/ merged[i].week1 = NaN

\* Lines 1069-1086: the column of the week has a NaN, from a NaN rank in any
\* week and from a NaN week1 in the weeks that blend; Series.rank keeps a
\* NaN, and astype(int) raises on it.
ColumnHasNaN(week, merged, df) ==
    \E i \in DOMAIN merged :
        \/ RankIsNaN(df, merged[i].teamName)
        \/ week <= LastBlendedWeek /\ merged[i].week1 = NaN

\* Line 1068, the column rank of the merged row of a teamName: the rank of
\* the output's row for it, NaN if there is none.
RankOf(df, teamName) ==
    IF RankIsNaN(df, teamName) THEN NaN
    ELSE df[CHOOSE i \in DOMAIN df : df[i].name = teamName].rank

MergedRank(rankings, df) == [i \in DOMAIN rankings |-> RankOf(df, rankings[i].teamName)]

\* The weights with seed and ranker exchanged.
BlendedTenthsRankerFirst(week, week1, rank) ==
    CASE week = 2 -> 2 * week1 + 8 * rank
      [] week = 3 -> 4 * week1 + 6 * rank
      [] week = 4 -> 6 * week1 + 4 * rank
      [] week = 5 -> 8 * week1 + 2 * rank

\* Lines 1070, 1073, 1076, 1079: week1 * 0.8 + rank * 0.2 and so on, in
\* tenths. For ranks up to 3 the float sums are equal or ordered exactly as
\* these whole numbers are.
BlendedTenths(week, week1, rank) ==
    CASE week = 2 -> 8 * week1 + 2 * rank
      [] week = 3 -> 6 * week1 + 4 * rank
      [] week = 4 -> 4 * week1 + 6 * rank
      [] week = 5 -> 2 * week1 + 8 * rank

BlendedColumn(week, rankings, ranks) ==
    [i \in DOMAIN rankings |-> BlendedTenths(week, rankings[i].week1, ranks[i])]

\* Lines 1069-1086: the column of this pass.
WeekColumn(week, rankings, ranks) ==
    IF week <= LastBlendedWeek
    THEN IntRank(BlendedColumn(week, rankings, ranks), TRUE)
    ELSE ranks

\* Lines 1068-1086: rankings_df after the pass.
WithColumn(rankings, col) == [i \in DOMAIN rankings |-> [rankings[i] EXCEPT !.column = col[i]]]

ColumnPass(week, merged, df) ==
    WithColumn(merged, WeekColumn(week, merged, MergedRank(merged, df)))

RankingPass(week, rankings, df) == ColumnPass(week, Merged(rankings, df), df)

\* Lines 1059-1086: the exception a pass raises on the file, "" if none.
MergeError(week, rankings, df) ==
    IF ColumnHasNaN(week, Merged(rankings, df), df)
    THEN "IntCastingNaNError: Cannot convert non-finite values (NA or inf) to integer"
    ELSE ""

PassError(week, rankings, file) ==
    IF ReadCsvError(file) # "" THEN ReadCsvError(file)
    ELSE MergeError(week, rankings, AdjustedRanks(week, file.rows))

\* ------------------------------------------------------- report files

\* Largest final score of a box score.
MaxScore == 1

LabelNames == Range(SectionLabels)

\* The player rows of the five repeated sections, away block then home block.
SomePlayers ==
    [ rushing |->
        [away |-> << [playerName |-> "Rusher", carries |-> 3, rushingYards |-> 20,
                      longestRush |-> 12] >>,
         home |-> << [playerName |-> "Rusher", carries |-> 5, rushingYards |-> 31,
                      longestRush |-> 9] >>],
      receiving |->
        [away |-> << [playerName |-> "Catcher", receptions |-> 2, receivingYards |-> 25,
                      longestReception |-> 18] >>,
         home |-> << [playerName |-> "Catcher", receptions |-> 4, receivingYards |-> 40,
                      longestReception |-> 22] >>],
      passing |->
        [away |-> << [playerName |-> "Passer", passCompletions |-> 2, passingYards |-> 25] >>,
         home |-> << [playerName |-> "Passer", passCompletions |-> 4, passingYards |-> 40] >>],
      defensive |->
        [away |-> << [playerName |-> "Tackler", sacks |-> 1, interceptions |-> 0] >>,
         home |-> << [playerName |-> "Tackler", sacks |-> 0, interceptions |-> 1] >>],
      kicking |->
        [away |-> << [playerName |-> "Kicker", fieldGoalsMade |-> <<25, 35>>,
                      fieldGoalsMissed |-> <<>>] >>,
         home |-> << [playerName |-> "Kicker", fieldGoalsMade |-> <<48>>,
                      fieldGoalsMissed |-> <<55>>] >>] ]

NoPlayers ==
    [ rushing |-> [away |-> <<>>, home |-> <<>>],
      receiving |-> [away |-> <<>>, home |-> <<>>],
      passing |-> [away |-> <<>>, home |-> <<>>],
      defensive |-> [away |-> <<>>, home |-> <<>>],
      kicking |-> [away |-> <<>>, home |-> <<>>] ]

\* A well-formed box score: every label twice, away wins 1-0.
BaseBox ==
    [ labels |-> [l \in LabelNames |-> 2],
      awayScore |-> 1, homeScore |-> 0,
      anchors |-> [l \in Range(AnchorLabels) |-> "ok"],
      puntsAway |-> <<5, 426>>, puntsHome |-> <<4, 380>>,
      krAway |-> <<2, 215>>, krHome |-> <<1, 200>>,
      prAway |-> <<3, 105>>, prHome |-> <<0, 0>>,
      players |-> SomePlayers,
      potgName |-> "Star", potgTeam |-> "Alpha" ]

\* Box scores that differ from BaseBox in the label counts, the final
\* scores, the player of the game or the player rows.
BoxScores ==
    {[BaseBox EXCEPT !.labels[l] = n] : l \in LabelNames, n \in 0..MaxLabelCount}
    \cup {[BaseBox EXCEPT !.awayScore = a, !.homeScore = h] :
             a \in 0..MaxScore, h \in 0..MaxScore}
    \cup {[BaseBox EXCEPT !.potgTeam = n] : n \in {"Alpha", "Beta", "Foxes", "Nowhere"}}
    \cup {[BaseBox EXCEPT !.players = NoPlayers]}

\* Box scores that differ from BaseBox in one "{count}-{average}" token of
\* KR-Avg or PR-Avg, the average in tenths.
ReturnBoxScores ==
    { [BaseBox EXCEPT !.krAway = <<0, 0>>], [BaseBox EXCEPT !.krHome = <<4, 62>>],
      [BaseBox EXCEPT !.prAway = <<1, 25>>], [BaseBox EXCEPT !.prHome = <<2, 75>>] }

\* Every combination of label counts, for the parser alone.
LabelledBoxScores ==
    {[BaseBox EXCEPT !.labels = L] : L \in [LabelNames -> 0..MaxLabelCount]}

\* Box scores with one anchor line missing, or with a token of it missing or
\* not a number (the line 'Player of the Game' has no number), alone, before
\* a second failing anchor, or with a section label missing as well.
AnchorStates ==
    {<<l, s>> \in Range(AnchorLabels) \X {"absent", "no token", "not a number"} :
        ~(l = "Player of the Game" /\ s = "not a number")}

AnchorBoxScores ==
    {[BaseBox EXCEPT !.anchors[x[1]] = x[2]] : x \in AnchorStates}
    \cup {[BaseBox EXCEPT !.anchors[x[1]] = x[2], !.anchors["KR-Avg"] = "absent"] :
             x \in AnchorStates}
    \cup {[BaseBox EXCEPT !.anchors[x[1]] = x[2], !.labels["Passing"] = 1] :
             x \in AnchorStates}

\* Largest count of a "{count}-{average}" token.
MaxCount == 5

\* The averages of the tokens, in tenths: 0.0, 2.5, 6.2, 10.5 and 42.6.
Averages == {0, 25, 62, 105, 426}

\* Box scores that differ from BaseBox in one token of Punts-Avg, KR-Avg or
\* PR-Avg.
AvgTokens == (0..MaxCount) \X Averages

AvgBoxScores ==
    {[BaseBox EXCEPT !.puntsAway = t] : t \in AvgTokens}
    \cup {[BaseBox EXCEPT !.puntsHome = t] : t \in AvgTokens}
    \cup {[BaseBox EXCEPT !.krAway = t] : t \in AvgTokens}
    \cup {[BaseBox EXCEPT !.krHome = t] : t \in AvgTokens}
    \cup {[BaseBox EXCEPT !.prAway = t] : t \in AvgTokens}
    \cup {[BaseBox EXCEPT !.prHome = t] : t \in AvgTokens}

\* The box scores given to the parser alone.
ParsedBoxScores == LabelledBoxScores \cup AnchorBoxScores \cup AvgBoxScores

Matchups ==
    { <<"A", "@", "B">>, <<"B", "vs", "A">>, <<"F", "@", "A">>, <<"B", "@", "F">>,
      <<"A", "@", "A">>,
      <<"Z", "@", "A">>, <<"A", "@", "Z">>, <<"A", "vs", "Z">>, <<"A", "B">>, <<"A@B">> }

Significances ==
    { "non-conference", "conference", "conference championship", "postseason",
      "conference-championship", "exhibition" }

BowlNames == { <<>>, <<"Rose", "Bowl">> }

Weeks ==
    { <<"0">>, <<"1">>, <<"1", "7">>, <<"1", "8">>, <<"b", "o", "w", "l">>, <<"x">>, <<>> }

Dates ==
    { [fmt |-> TRUE, mm |-> 9, dd |-> 2, yyyy |-> 2023],
      [fmt |-> TRUE, mm |-> 9, dd |-> 9, yyyy |-> 2023],
      [fmt |-> TRUE, mm |-> 13, dd |-> 45, yyyy |-> 2023],
      [fmt |-> FALSE, mm |-> 9, dd |-> 2, yyyy |-> 23] }

BaseReport ==
    [ fields |-> HeaderLabels,
      matchup |-> <<"A", "@", "B">>,
      significance |-> "conference",
      bowl |-> <<>>,
      date |-> [fmt |-> TRUE, mm |-> 9, dd |-> 2, yyyy |-> 2023],
      week |-> <<"1">>,
      box |-> BaseBox ]

\* The matchups that bring every kind of team to either side.
ReturnMatchups == { <<"A", "@", "B">>, <<"F", "@", "A">>, <<"B", "@", "F">> }

\* The report files a run may find: BaseReport with one group of its header
\* or of its box score changed, and the return tokens changed under each of
\* ReturnMatchups.
Reports ==
    {[BaseReport EXCEPT !.matchup = m] : m \in Matchups}
    \cup {[BaseReport EXCEPT !.significance = s, !.bowl = b] :
             s \in Significances, b \in BowlNames}
    \cup {[BaseReport EXCEPT !.week = w] : w \in Weeks}
    \cup {[BaseReport EXCEPT !.date = d] : d \in Dates}
    \cup {[BaseReport EXCEPT !.fields = HeaderLabels \ {l}] : l \in HeaderLabels}
    \cup {[BaseReport EXCEPT !.box = b] : b \in BoxScores}
    \cup {[BaseReport EXCEPT !.matchup = m, !.box = b] :
             m \in ReturnMatchups, b \in ReturnBoxScores}

\* ------------------------------------------------------------ actions

Tables ==
    [ games |-> games_df,
      rushing |-> player_rushing_stats_df,
      receiving |-> player_receiving_stats_df,
      passing |-> player_passing_stats_df,
      defensive |-> player_defensive_stats_df,
      kicking |-> player_kicking_stats_df,
      returning |-> player_returning_stats_df,
      potg |-> player_of_the_game_stats_df ]

\* Where control is after a raise: neither read_game_files nor its caller
\* (lines 1665-1671) catches the ValueError, so the run ends.
AfterRaiseCaught == "reading"

AfterRaise == "error"

InitRead ==
    /\ pc = "reading"
    /\ nfiles = 0
    /\ report = <<>>
    /\ error = ""
    /\ games_df = <<>>
    /\ player_rushing_stats_df = <<>>
    /\ player_receiving_stats_df = <<>>
    /\ player_passing_stats_df = <<>>
    /\ player_defensive_stats_df = <<>>
    /\ player_kicking_stats_df = <<>>
    /\ player_returning_stats_df = <<>>
    /\ player_of_the_game_stats_df = <<>>
    /\ returned = <<>>

\* The assignments one pass of the loop ends with, out its outcome.
LoopPass(r, out) ==
    /\ games_df' = out.tables.games
    /\ player_rushing_stats_df' = out.tables.rushing
    /\ player_receiving_stats_df' = out.tables.receiving
    /\ player_passing_stats_df' = out.tables.passing
    /\ player_defensive_stats_df' = out.tables.defensive
    /\ player_kicking_stats_df' = out.tables.kicking
    /\ player_returning_stats_df' = out.tables.returning
    /\ player_of_the_game_stats_df' = out.tables.potg
    /\ error' = IF out.error = "" THEN error ELSE out.error
    /\ pc' = IF out.error = "" THEN "reading" ELSE AfterRaise
    /\ report' = r

\* One pass of the loop of lines 639-981 over the next report file.
ReadGameFile ==
    /\ pc = "reading"
    /\ nfiles < MaxFiles
    /\ \E r \in Reports : LoopPass(r, read_game_file(r, Tables))
    /\ nfiles' = nfiles + 1
    /\ UNCHANGED <<returned, parseVars, seasonVars, rankVars>>

\* Lines 983-996: no file is left; the final check, then the return.
Return ==
    /\ pc = "reading"
    /\ IF \E i \in DOMAIN games_df :
              games_df[i].winningTeamScore <= games_df[i].losingTeamScore
       THEN /\ pc' = AfterRaise
            /\ error' = "Winning team score must be greater than losing team score"
            /\ UNCHANGED returned
       ELSE /\ pc' = "returned"
            /\ returned' = <<Tables>>
            /\ UNCHANGED error
    /\ UNCHANGED <<nfiles, report, tables, parseVars, seasonVars, rankVars>>

\* No call of compile_season_stats is modelled.
InitSeasonIdle ==
    /\ files = <<>>
    /\ season_week = 1
    /\ season = <<>>

\* No call of create_rankings_df is modelled.
InitRankIdle ==
    /\ rank_pc = "idle"
    /\ rank_error = ""
    /\ ranking_Games = <<>>
    /\ Season_Scores_For_Ranking = <<>>
    /\ scores_writes = 0
    /\ ranker = [calls |-> 0, week |-> 0, status |-> 0]
    /\ Ranking_Output_csv = [header |-> FALSE, rows |-> <<>>]
    /\ initialRankingPoints = <<>>
    /\ ranking_week = 0
    /\ Ranking_Output = <<>>
    /\ weeks_ranking_df = <<>>
    /\ rankings_df = <<>>

Init ==
    /\ InitRead
    /\ content = BaseBox
    /\ parsed = <<>>
    /\ InitSeasonIdle
    /\ InitRankIdle

Next ==
    \/ ReadGameFile
    \/ Return

Spec == Init /\ [][Next]_vars

\* One call of parse_whatifsports_box_score on a box score.
Parse ==
    /\ parsed = <<>>
    /\ parsed' = <<parse_whatifsports_box_score(content)>>
    /\ UNCHANGED <<content, readVars, seasonVars, rankVars>>

InitParse ==
    /\ InitRead
    /\ content \in ParsedBoxScores
    /\ parsed = <<>>
    /\ InitSeasonIdle
    /\ InitRankIdle

NextParse == Parse

SpecParse == InitParse /\ [][NextParse]_vars

\* ------------------------------------------------------ season inputs

\* Report files of one season, and the largest week argument.
MaxSeasonFiles == 2

MaxSeasonWeek == 2

\* A box score whose kickers have distances on both sides of every range
\* limit.
KickBox ==
    [BaseBox EXCEPT !.players.kicking =
        [away |-> << [playerName |-> "Kicker", fieldGoalsMade |-> <<25, 35, 48, 55>>,
                      fieldGoalsMissed |-> <<29, 30, 39>>] >>,
         home |-> << [playerName |-> "Kicker", fieldGoalsMade |-> <<>>,
                      fieldGoalsMissed |-> <<40, 49, 50>>] >>]]

\* A box score the home team wins, with other returns and longer plays.
HomeWinBox ==
    [BaseBox EXCEPT !.awayScore = 0, !.homeScore = 1,
                    !.krAway = <<4, 62>>, !.prHome = <<2, 75>>,
                    !.players.rushing =
                        [away |-> << [playerName |-> "Rusher", carries |-> 7,
                                      rushingYards |-> 44, longestRush |-> 30] >>,
                         home |-> << [playerName |-> "Runner", carries |-> 2,
                                      rushingYards |-> 6, longestRush |-> 4] >>]]

\* The reports of a season: weeks 1 to 3, both sides for A and B, an FCS
\* opponent, a neutral site, a team against itself, a rejected report.
SeasonReports ==
    { BaseReport,
      [BaseReport EXCEPT !.week = <<"2">>, !.box = KickBox,
                         !.date = [fmt |-> TRUE, mm |-> 9, dd |-> 9, yyyy |-> 2023]],
      [BaseReport EXCEPT !.week = <<"2">>, !.matchup = <<"B", "vs", "A">>,
                         !.significance = "non-conference",
                         !.box = [BaseBox EXCEPT !.krAway = <<0, 0>>],
                         !.date = [fmt |-> TRUE, mm |-> 9, dd |-> 9, yyyy |-> 2023]],
      [BaseReport EXCEPT !.week = <<"3">>, !.box = HomeWinBox,
                         !.date = [fmt |-> TRUE, mm |-> 9, dd |-> 16, yyyy |-> 2023]],
      [BaseReport EXCEPT !.matchup = <<"F", "@", "A">>, !.significance = "non-conference"],
      [BaseReport EXCEPT !.week = <<"2">>, !.matchup = <<"A", "@", "A">>],
      [BaseReport EXCEPT !.box = [BaseBox EXCEPT !.potgTeam = "Nowhere"]] }

\* The listings of Scores/: os.listdir gives the files in any order.
FileLists == UNION {[1..n -> SeasonReports] : n \in 0..MaxSeasonFiles}

\* ------------------------------------------------------ season actions

\* What the caller holds after the call of read_game_files.
StoreTables(out) ==
    /\ games_df' = out.tables.games
    /\ player_rushing_stats_df' = out.tables.rushing
    /\ player_receiving_stats_df' = out.tables.receiving
    /\ player_passing_stats_df' = out.tables.passing
    /\ player_defensive_stats_df' = out.tables.defensive
    /\ player_kicking_stats_df' = out.tables.kicking
    /\ player_returning_stats_df' = out.tables.returning
    /\ player_of_the_game_stats_df' = out.tables.potg
    /\ error' = out.error
    /\ returned' = IF out.error = "" THEN <<out.tables>> ELSE <<>>
    /\ pc' = IF out.error = "" THEN "returned" ELSE AfterRaise

\* The call of read_game_files over the files of the listing.
ReadGameFiles ==
    /\ pc = "reading"
    /\ StoreTables(read_game_files(files))
    /\ nfiles' = Len(files)
    /\ UNCHANGED <<report, parseVars, seasonVars, rankVars>>

\* What the caller holds after the call of compile_season_stats.
StoreSeason(out) ==
    /\ season' = IF out.error = "" THEN <<out>> ELSE <<>>
    /\ error' = out.error
    /\ pc' = IF out.error = "" THEN "compiled" ELSE AfterRaise

\* The call of compile_season_stats on what read_game_files returned.
CompileSeasonStats ==
    /\ pc = "returned"
    /\ StoreSeason(compile_season_stats(season_week, returned[1]))
    /\ UNCHANGED <<nfiles, report, tables, returned, parseVars, files, season_week, rankVars>>

InitSeason ==
    /\ InitRead
    /\ content = BaseBox
    /\ parsed = <<>>
    /\ files \in FileLists
    /\ season_week \in 1..MaxSeasonWeek
    /\ season = <<>>
    /\ InitRankIdle

NextSeason ==
    \/ ReadGameFiles
    \/ CompileSeasonStats

SpecSeason == InitSeason /\ [][NextSeason]_vars

\* ------------------------------------------------------------- claims

bowl == <<"b", "o", "w", "l">>

\* The away and home tokens of a matchup of the form {away} @|vs {home}.
WellFormedMatchup(m) == Len(m) = 3 /\ m[2] \in {"@", "vs"}

\* The seven per-player tables.
PlayerTables ==
    << player_rushing_stats_df, player_receiving_stats_df, player_passing_stats_df,
       player_defensive_stats_df, player_kicking_stats_df, player_returning_stats_df,
       player_of_the_game_stats_df >>

\* C1: a box score in which some section label does not appear on exactly
\* two lines is rejected with an error that names a section whose count is
\* not 2, and game_data holds no field when the error is raised.
C1_LabelCountsRejected ==
    \A k \in DOMAIN parsed :
        (\E l \in LabelNames : content.labels[l] # 2)
        => /\ parsed[k].raised # ""
           /\ parsed[k].section \in LabelNames
           /\ content.labels[parsed[k].section] # 2
           /\ DOMAIN parsed[k].game_data = {}

\* C1 witness: only 'Field Goals' has a wrong count (three lines) and the
\* call was rejected naming it.
C1_Witness ==
    /\ Len(parsed) = 1
    /\ content.labels["Field Goals"] = 3
    /\ \A l \in LabelNames \ {"Field Goals"} : content.labels[l] = 2
    /\ parsed[1].raised # ""
    /\ parsed[1].section = "Field Goals"

\* C2: every Game row has winningTeamScore > losingTeamScore, the winner
\* being the side with the higher final score and the loser the other side;
\* a report with equal final scores is rejected.
C2_WinnerOutscoresLoser ==
    /\ \A i \in DOMAIN games_df :
          LET g == games_df[i]
          IN  /\ g.winningTeamScore > g.losingTeamScore
              /\ \/ /\ g.awayTeamScore > g.homeTeamScore
                    /\ g.winningTeamName = g.awayTeamName
                    /\ g.losingTeamName = g.homeTeamName
                    /\ g.winningTeamScore = g.awayTeamScore
                    /\ g.losingTeamScore = g.homeTeamScore
                 \/ /\ g.homeTeamScore > g.awayTeamScore
                    /\ g.winningTeamName = g.homeTeamName
                    /\ g.losingTeamName = g.awayTeamName
                    /\ g.winningTeamScore = g.homeTeamScore
                    /\ g.losingTeamScore = g.awayTeamScore
    /\ (nfiles > 0 /\ report.box.awayScore = report.box.homeScore)
       => (pc = "error" /\ Len(games_df) < nfiles)

\* C2 witness: a game won by the home team was accepted, then a report with
\* equal scores was rejected for it.
C2_Witness ==
    /\ pc = "error"
    /\ error = "away score and home score are equal"
    /\ report.box.awayScore = report.box.homeScore
    /\ Len(games_df) = 1
    /\ games_df[1].winningTeamName = games_df[1].homeTeamName
    /\ games_df[1].homeTeamName # games_df[1].awayTeamName

\* C3: once a report of the run is rejected, read_game_files returns no
\* table, whatever was appended before.
C3_ErrorReturnsNothing == error # "" => returned = <<>>

\* C3 witness: a report was accepted and appended, the next one rejected,
\* and nothing is returned.
C3_Witness ==
    /\ pc = "error"
    /\ nfiles = 2
    /\ Len(games_df) >= 1
    /\ Len(player_rushing_stats_df) >= 1
    /\ returned = <<>>

\* C4, as claimed: whenever a report is rejected, the tables are as they
\* were before the report was read.
C4_NoRowAtAnyRaise ==
    [][(pc = "reading" /\ pc' = "error") => UNCHANGED tables]_vars

\* C4, amended: a report rejected by the header checks, the section-label
\* counts or the tie check leaves every table as it was; a report rejected
\* for its Player-of-the-Game team name has its Game row as the last row of
\* games_df and its player rows appended, only the player-of-the-game table
\* being as it was.
C4_RowsAtRaise ==
    [][(pc = "reading" /\ pc' = "error") =>
         IF error' = "Invalid player of the game team name"
         THEN /\ Len(games_df') = Len(games_df) + 1
              /\ SubSeq(games_df', 1, Len(games_df)) = games_df
              /\ games_df'[Len(games_df')].gameID
                   = <<report'.matchup[1], report'.matchup[3],
                       report'.date.yyyy * 10000 + report'.date.mm * 100 + report'.date.dd>>
              /\ \A k \in 1..6 :
                    /\ Len(PlayerTables[k]') >= Len(PlayerTables[k])
                    /\ SubSeq(PlayerTables[k]', 1, Len(PlayerTables[k])) = PlayerTables[k]
              /\ report'.matchup[1] \notin FCSIds /\ report'.box.players = SomePlayers
                 => Len(player_rushing_stats_df') > Len(player_rushing_stats_df)
              /\ player_of_the_game_stats_df' = player_of_the_game_stats_df
         ELSE UNCHANGED tables]_vars

\* C4 witness: the only report read was rejected for its Player-of-the-Game
\* team name, and its Game row and player rows are in the tables.
C4_Witness ==
    /\ pc = "error"
    /\ nfiles = 1
    /\ error = "Invalid player of the game team name"
    /\ report.box.potgTeam \notin WhatifsportsNames
    /\ Len(games_df) = 1
    /\ Len(player_rushing_stats_df) = 2
    /\ Len(player_returning_stats_df) = 3
    /\ player_of_the_game_stats_df = <<>>

\* C5: a report whose matchup names an away or a home team that is no id of
\* the team table is rejected, and both teams of every Game are ids of it.
C5_TeamsInReference ==
    /\ (/\ nfiles > 0
        /\ WellFormedMatchup(report.matchup)
        /\ \/ \A i \in DOMAIN TeamInfo : TeamInfo[i].id # report.matchup[1]
           \/ \A i \in DOMAIN TeamInfo : TeamInfo[i].id # report.matchup[3])
       => (pc = "error" /\ Len(games_df) < nfiles)
    /\ \A k \in DOMAIN games_df :
          /\ \E i \in DOMAIN TeamInfo : TeamInfo[i].id = games_df[k].awayTeamName
          /\ \E i \in DOMAIN TeamInfo : TeamInfo[i].id = games_df[k].homeTeamName

\* C5 witness: a report with a known away team and an unknown home team was
\* rejected for its team name.
C5_Witness ==
    /\ pc = "error"
    /\ error = "Invalid team name in matchup"
    /\ report.matchup = <<"A", "@", "Z">>

\* C6: a report is accepted only if its Week is a decimal integer in 1..17
\* ('bowl', 0, 18 and a non-numeric week are rejected), and weekPlayed of
\* every Game is in 1..17.
C6_WeekInRange ==
    /\ (/\ nfiles > 0
        /\ \/ report.week \in {bowl, <<"0">>, <<"1", "8">>, <<"x">>, <<>>}
           \/ ~(\A i \in DOMAIN report.week : report.week[i] \in Digits)
           \/ int(report.week) \notin 1..17)
       => (pc = "error" /\ Len(games_df) < nfiles)
    /\ \A k \in DOMAIN games_df : games_df[k].weekPlayed \in 1..17

\* C6 witness: a week-17 report was accepted and a 'bowl' report rejected
\* for its week.
C6_Witness ==
    /\ pc = "error"
    /\ error = "Invalid week value"
    /\ report.week = bowl
    /\ \E k \in DOMAIN games_df : games_df[k].weekPlayed = 17

\* C7: a report with a bowl name and a significance other than 'postseason'
\* is rejected; a postseason report, otherwise well formed, is accepted with
\* and without a bowl name.
C7_BowlNameOnlyPostseason ==
    /\ (nfiles > 0 /\ report.bowl # <<>> /\ report.significance # "postseason")
       => (pc = "error" /\ Len(games_df) < nfiles)
    /\ \A b \in BowlNames :
          (nfiles > 0 /\ report = [BaseReport EXCEPT !.significance = "postseason", !.bowl = b])
          => /\ pc # "error"
             /\ Len(games_df) = nfiles
             /\ games_df[nfiles].gameSignificance = "postseason"

\* C7 witness: a postseason report with a bowl name was accepted, then a
\* conference report with a bowl name rejected for it.
C7_Witness ==
    /\ pc = "error"
    /\ error = "Bowl Name should be empty"
    /\ report.significance = "conference"
    /\ report.bowl = <<"Rose", "Bowl">>
    /\ Len(games_df) = 1
    /\ games_df[1].gameSignificance = "postseason"

\* C8, as claimed: the significance of every Game is one of non-conference,
\* conference, conference-championship, postseason, and a report with any
\* of these four values, otherwise well formed, is accepted.
C8_EnumeratedSignificance ==
    LET enum == {"non-conference", "conference", "conference-championship", "postseason"}
    IN  /\ \A k \in DOMAIN games_df : games_df[k].gameSignificance \in enum
        /\ \A v \in enum :
              (nfiles > 0 /\ report = [BaseReport EXCEPT !.significance = v])
              => pc # "error"

\* C8, amended: the four accepted values are non-conference, conference,
\* 'conference championship' (with a space) and postseason; each of them is
\* accepted, and any other value, 'conference-championship' with a hyphen
\* included, is rejected.
C8_AcceptedSignificance ==
    LET enum == {"non-conference", "conference", "conference championship", "postseason"}
    IN  /\ \A k \in DOMAIN games_df : games_df[k].gameSignificance \in enum
        /\ \A v \in enum :
              (nfiles > 0 /\ report = [BaseReport EXCEPT !.significance = v])
              => /\ pc # "error"
                 /\ Len(games_df) = nfiles
                 /\ games_df[nfiles].gameSignificance = v
        /\ (nfiles > 0 /\ report.significance \notin enum)
           => (pc = "error" /\ Len(games_df) < nfiles)

\* C8 witness: a 'conference championship' report was accepted and a
\* 'conference-championship' report rejected for its significance.
C8_Witness ==
    /\ pc = "error"
    /\ error = "Invalid significance value"
    /\ report.significance = "conference-championship"
    /\ Len(games_df) = 1
    /\ games_df[1].gameSignificance = "conference championship"

\* C9: no per-player table ever holds a row of a team whose conference id
\* is 'FCS', and every accepted report, a game with an FCS team included,
\* keeps its Game row.
C9_NoFCSPlayerRows ==
    /\ \A k \in DOMAIN PlayerTables :
          \A i \in DOMAIN PlayerTables[k] :
             \A j \in DOMAIN TeamInfo :
                TeamInfo[j].id = PlayerTables[k][i].teamName
                => TeamInfo[j].conferenceID # "FCS"
    /\ pc # "error" => Len(games_df) = nfiles

\* C9 witness: two reports were accepted, one of an FCS team visiting A and
\* one whose player of the game is of the FCS team; both Game rows are kept
\* and the per-player tables hold the rows of A and B only.
C9_Witness ==
    /\ pc = "returned"
    /\ nfiles = 2
    /\ Len(games_df) = 2
    /\ \E k \in DOMAIN games_df : games_df[k].awayTeamName = "F"
    /\ \E k \in DOMAIN games_df : games_df[k].playerOfTheGameTeamName = "Foxes"
    /\ report.box.players = SomePlayers
    /\ Len(player_rushing_stats_df) = 3
    /\ Len(player_returning_stats_df) = 4
    /\ Len(player_of_the_game_stats_df) = 1

\* The rows of the returning table for one team in one game.
ReturningRowsOf(gid, team) ==
    SelectSeq(player_returning_stats_df,
              LAMBDA row : row.gameID = gid /\ row.teamName = team)

SumOf(rows, field) == SumSeq([i \in DOMAIN rows |-> rows[i][field]])

\* C10: for every Game and each non-FCS team in it, the team has one
\* returning row for that game if its kick returner is its punt returner
\* and two otherwise, and its rows sum to the team-level return values of
\* the Game.
C10_ReturningRowsPerTeam ==
    \A k \in DOMAIN games_df :
       LET g == games_df[k]
           Holds(team, kr, kry, pr, pry) ==
               LET rows == ReturningRowsOf(g.gameID, team)
                   t == TeamById(team)
               IN  team \notin FCSIds
                   => /\ Len(rows) = IF t.kickReturnerName = t.puntReturnerName THEN 1 ELSE 2
                      /\ SumOf(rows, "kickReturns") = kr
                      /\ SumOf(rows, "kickReturnYards") = kry
                      /\ SumOf(rows, "puntReturns") = pr
                      /\ SumOf(rows, "puntReturnYards") = pry
       IN  /\ Holds(g.awayTeamName, g.awayTeamKickReturns, g.awayTeamKickReturnYards,
                    g.awayTeamPuntReturns, g.awayTeamPuntReturnYards)
           /\ Holds(g.homeTeamName, g.homeTeamKickReturns, g.homeTeamKickReturnYards,
                    g.homeTeamPuntReturns, g.homeTeamPuntReturnYards)

\* ------------------------------------------- claims on the season stats

\* The tables compile_season_stats was called with.
Passed == returned[1]

\* The Game rows of weeks up to the week argument, by index.
WeekGames == {i \in DOMAIN Passed.games : Passed.games[i].weekPlayed <= season_week}

\* The rows of a player table that belong to those games.
RowsUpToWeek(df) ==
    SelectSeq(df, LAMBDA row :
                     \E i \in WeekGames : Passed.games[i].gameID = row.gameID)

\* The sum of f over the indices S.
RECURSIVE SumOver(_, _)
SumOver(S, f) ==
    IF S = {} THEN 0
    ELSE LET i == CHOOSE j \in S : TRUE IN f[i] + SumOver(S \ {i}, f)

\* C11: every PlayerSeasonStats table holds the rows computed from the
\* PlayerGameStat rows of the games with weekPlayed <= week alone: a game
\* played after that week adds to no player total and creates no player row.
C11_PlayerRowsUpToWeek ==
    season # <<>>
    => /\ Range(season[1].PlayerSeasonRushingStats)
             = Range(PlayerSeasonStats(RowsUpToWeek(Passed.rushing), "rushing"))
       /\ Range(season[1].PlayerSeasonReceivingStats)
             = Range(PlayerSeasonStats(RowsUpToWeek(Passed.receiving),
                                       "receiving"))
       /\ Range(season[1].PlayerSeasonPassingStats)
             = Range(PlayerSeasonStats(RowsUpToWeek(Passed.passing), "passing"))
       /\ Range(season[1].PlayerSeasonDefensiveStats)
             = Range(PlayerSeasonStats(RowsUpToWeek(Passed.defensive),
                                       "defensive"))
       /\ Range(season[1].PlayerSeasonKickingStats)
             = Range(PlayerSeasonStats(RowsUpToWeek(Passed.kicking), "kicking"))
       /\ Range(season[1].PlayerSeasonReturningStats)
             = Range(PlayerSeasonStats(RowsUpToWeek(Passed.returning),
                                       "returning"))
       /\ Range(season[1].PlayerSeasonPlayerOfTheGameStats)
             = Range(PlayerSeasonStats(RowsUpToWeek(Passed.potg),
                                       "potg"))

\* The games of WeekGames the team x played in, won and lost.
PlayedBy(x) ==
    {i \in WeekGames : Passed.games[i].awayTeamName = x \/ Passed.games[i].homeTeamName = x}

\* The value of a team's own column, and of its opponent's, in each game.
OwnValue(x, field) ==
    [i \in DOMAIN Passed.games |->
        (IF Passed.games[i].homeTeamName = x
         THEN Passed.games[i][HomeColumn[field]] ELSE 0)
        + (IF Passed.games[i].awayTeamName = x
           THEN Passed.games[i][AwayColumn[field]] ELSE 0)]

OpponentValue(x, field) ==
    [i \in DOMAIN Passed.games |->
        (IF Passed.games[i].homeTeamName = x
         THEN Passed.games[i][AwayColumn[field]] ELSE 0)
        + (IF Passed.games[i].awayTeamName = x
           THEN Passed.games[i][HomeColumn[field]] ELSE 0)]

\* C12: the TeamSeasonStats rows are those of the non-FCS teams, and every
\* counter of games played, wins, losses and offensive sums counts exactly
\* the Game rows with weekPlayed <= week, that week included.
C12_TeamCountersUpToWeek ==
    season # <<>>
    => /\ {season[1].TeamSeasonStats[k].id : k \in DOMAIN season[1].TeamSeasonStats}
             = TeamIds \ FCSIds
       /\ \A k \in DOMAIN season[1].TeamSeasonStats :
             LET row == season[1].TeamSeasonStats[k]
                 G == Passed.games
             IN  /\ row.numGamesPlayed = Cardinality(PlayedBy(row.id))
                 /\ row.numWins
                       = Cardinality({i \in WeekGames : G[i].winningTeamName = row.id})
                 /\ row.numLosses
                       = Cardinality({i \in WeekGames : G[i].losingTeamName = row.id})
                 /\ row.numConferenceWins
                       = Cardinality({i \in WeekGames :
                                         /\ G[i].winningTeamName = row.id
                                         /\ G[i].gameSignificance = "conference"})
                 /\ row.numConferenceLosses
                       = Cardinality({i \in WeekGames :
                                         /\ G[i].losingTeamName = row.id
                                         /\ G[i].gameSignificance = "conference"})
                 /\ row.numKickReturns = SumOver(WeekGames, OwnValue(row.id, "KickReturns"))
                 /\ row.numKickReturnYards
                       = SumOver(WeekGames, OwnValue(row.id, "KickReturnYards"))
                 /\ row.numPuntReturns = SumOver(WeekGames, OwnValue(row.id, "PuntReturns"))
                 /\ row.numPuntReturnYards
                       = SumOver(WeekGames, OwnValue(row.id, "PuntReturnYards"))

\* C12 witness: with week 2, a game of week 2 and a game of week 3 were
\* passed; team A has one game played, the one of week 2.
C12_Witness ==
    /\ season # <<>>
    /\ season_week = 2
    /\ \E i \in DOMAIN Passed.games : Passed.games[i].weekPlayed = 2
    /\ \E i \in DOMAIN Passed.games : Passed.games[i].weekPlayed = 3
    /\ \E k \in DOMAIN season[1].TeamSeasonStats :
          /\ season[1].TeamSeasonStats[k].id = "A"
          /\ season[1].TeamSeasonStats[k].numGamesPlayed = 1

\* C13: every returned TeamSeasonStats row has numWins + numLosses =
\* numGamesPlayed, and when the games up to the week make this false for a
\* team the call raises and returns nothing.
C13_WinsPlusLossesIsPlayed ==
    /\ season # <<>>
       => \A k \in DOMAIN season[1].TeamSeasonStats :
             season[1].TeamSeasonStats[k].numWins + season[1].TeamSeasonStats[k].numLosses
                = season[1].TeamSeasonStats[k].numGamesPlayed
    /\ (/\ returned # <<>>
        /\ pc # "returned"
        /\ \E x \in TeamIds \ FCSIds :
              Cardinality({i \in WeekGames : Passed.games[i].winningTeamName = x})
              + Cardinality({i \in WeekGames : Passed.games[i].losingTeamName = x})
                 # Cardinality(PlayedBy(x)))
       => /\ season = <<>>
          /\ pc = "error"
          /\ error = "numWins + numLosses must equal numGamesPlayed"

\* C13 witness: a game of team A against itself is among the games up to the
\* week, and the call raised.
C13_Witness ==
    /\ returned # <<>>
    /\ pc = "error"
    /\ season = <<>>
    /\ \E i \in WeekGames :
          Passed.games[i].awayTeamName = "A" /\ Passed.games[i].homeTeamName = "A"

\* C14: every defensive counter of a team is the sum, over the games up to
\* the week the team played in, of the opponent's field: the away field of
\* the games at home, the home field of the games away.
C14_DefenseIsOpponentOffense ==
    season # <<>>
    => \A k \in DOMAIN season[1].TeamSeasonStats :
          LET row == season[1].TeamSeasonStats[k]
          IN  /\ row.id \notin FCSIds
              /\ row.numKickReturnsByOpponents
                    = SumOver(PlayedBy(row.id), OpponentValue(row.id, "KickReturns"))
              /\ row.numKickReturnYardsAllowed
                    = SumOver(PlayedBy(row.id), OpponentValue(row.id, "KickReturnYards"))
              /\ row.numPuntReturnsByOpponents
                    = SumOver(PlayedBy(row.id), OpponentValue(row.id, "PuntReturns"))
              /\ row.numPuntReturnYardsAllowed
                    = SumOver(PlayedBy(row.id), OpponentValue(row.id, "PuntReturnYards"))

\* C14 witness: team B was away in one game and home in another up to the
\* week, and its opponents' kick returns differ from its own.
C14_Witness ==
    /\ season # <<>>
    /\ \E i \in WeekGames : Passed.games[i].awayTeamName = "B"
    /\ \E i \in WeekGames : Passed.games[i].homeTeamName = "B"
    /\ \E k \in DOMAIN season[1].TeamSeasonStats :
          /\ season[1].TeamSeasonStats[k].id = "B"
          /\ season[1].TeamSeasonStats[k].numKickReturnsByOpponents
                # season[1].TeamSeasonStats[k].numKickReturns

\* The distances of one list column in the rows of the pair x, each with
\* its place, and the range a distance falls in.
Distances(df, col, x) ==
    {<<i, j>> \in (DOMAIN df) \X (1..8) :
        /\ df[i].playerName = x.playerName
        /\ df[i].teamName = x.teamName
        /\ j \in DOMAIN df[i][col]}

Bucket(y) == IF y < 30 THEN 1 ELSE IF y < 40 THEN 2 ELSE IF y < 50 THEN 3 ELSE 4

InBucket(df, col, x, b) ==
    Cardinality({p \in Distances(df, col, x) : Bucket(df[p[1]][col][p[2]]) = b})

\* C15: in every PlayerSeasonKickingStats row each made and each missed
\* distance of the player is counted in the one range it falls in, the four
\* counts of a kind sum to the total, and made distances 25, 35, 48, 55 give
\* one per range.
C15_FieldGoalBuckets ==
    /\ season # <<>>
       => \A k \in DOMAIN season[1].PlayerSeasonKickingStats :
             LET row == season[1].PlayerSeasonKickingStats[k]
                 df == Passed.kicking
             IN  /\ row.fieldGoals0To29YardsMade = InBucket(df, "fieldGoalsMade", row, 1)
                 /\ row.fieldGoals30To39YardsMade = InBucket(df, "fieldGoalsMade", row, 2)
                 /\ row.fieldGoals40To49YardsMade = InBucket(df, "fieldGoalsMade", row, 3)
                 /\ row.fieldGoals50PlusYardsMade = InBucket(df, "fieldGoalsMade", row, 4)
                 /\ row.fieldGoals0To29YardsMissed = InBucket(df, "fieldGoalsMissed", row, 1)
                 /\ row.fieldGoals30To39YardsMissed = InBucket(df, "fieldGoalsMissed", row, 2)
                 /\ row.fieldGoals40To49YardsMissed = InBucket(df, "fieldGoalsMissed", row, 3)
                 /\ row.fieldGoals50PlusYardsMissed = InBucket(df, "fieldGoalsMissed", row, 4)
                 /\ row.fieldGoals0To29YardsMade + row.fieldGoals30To39YardsMade
                    + row.fieldGoals40To49YardsMade + row.fieldGoals50PlusYardsMade
                       = row.fieldGoalsMade
                 /\ row.fieldGoals0To29YardsMissed + row.fieldGoals30To39YardsMissed
                    + row.fieldGoals40To49YardsMissed + row.fieldGoals50PlusYardsMissed
                       = row.fieldGoalsMissed
                 /\ row.fieldGoalsMade = Cardinality(Distances(df, "fieldGoalsMade", row))
                 /\ row.fieldGoalsMissed = Cardinality(Distances(df, "fieldGoalsMissed", row))
    /\ LET row == PlayerSeasonKickingRow(
                      << [playerName |-> "Kicker", teamName |-> "A",
                          fieldGoalsMade |-> <<25, 35, 48, 55>>,
                          fieldGoalsMissed |-> <<>>] >>,
                      [playerName |-> "Kicker", teamName |-> "A"])
       IN  /\ row.fieldGoals0To29YardsMade = 1
           /\ row.fieldGoals30To39YardsMade = 1
           /\ row.fieldGoals40To49YardsMade = 1
           /\ row.fieldGoals50PlusYardsMade = 1

\* C15 witness: a kicker's only game has made distances 25, 35, 48, 55 and
\* missed distances 29, 30, 39; his season row has one made per range.
C15_Witness ==
    /\ season # <<>>
    /\ Len(Passed.kicking) = 2
    /\ \E i \in DOMAIN Passed.kicking :
          /\ Passed.kicking[i].fieldGoalsMade = <<25, 35, 48, 55>>
          /\ Passed.kicking[i].fieldGoalsMissed = <<29, 30, 39>>
    /\ \E k \in DOMAIN season[1].PlayerSeasonKickingStats :
          LET row == season[1].PlayerSeasonKickingStats[k]
          IN  /\ row.fieldGoalsMade = 4
              /\ row.fieldGoals0To29YardsMade = 1
              /\ row.fieldGoals30To39YardsMade = 1
              /\ row.fieldGoals40To49YardsMade = 1
              /\ row.fieldGoals50PlusYardsMade = 1
              /\ row.fieldGoals30To39YardsMissed = 2

\* The orders of n files, and the listing fs in the order p.
Orders(n) == {p \in [1..n -> 1..n] : \A i, j \in 1..n : p[i] = p[j] => i = j}

InOrder(fs, p) == [i \in DOMAIN fs |-> fs[p[i]]]

\* What the two calls give for the listing fs: <<>> if either raises, else
\* the TeamSeasonStats rows and the set of rows of each player table.
Aggregates(fs) ==
    LET read == read_game_files(fs)
        out == compile_season_stats(season_week, read.tables)
    IN  IF read.error # "" THEN <<>>
        ELSE IF out.error # "" THEN <<>>
        ELSE << [ TeamSeasonStats |-> out.TeamSeasonStats,
                  rushing |-> Range(out.PlayerSeasonRushingStats),
                  receiving |-> Range(out.PlayerSeasonReceivingStats),
                  passing |-> Range(out.PlayerSeasonPassingStats),
                  defensive |-> Range(out.PlayerSeasonDefensiveStats),
                  kicking |-> Range(out.PlayerSeasonKickingStats),
                  returning |-> Range(out.PlayerSeasonReturningStats),
                  potg |-> Range(out.PlayerSeasonPlayerOfTheGameStats) ] >>

\* C16: what compile_season_stats returned is, in its TeamSeasonStats
\* values and in the set of rows of every PlayerSeasonStats table, what it
\* returns for every other order of reading the same report files.
C16_OrderIndependent ==
    pc \in {"compiled", "error"}
    => \A p \in Orders(Len(files)) :
          /\ Aggregates(InOrder(files, p)) = Aggregates(files)
          /\ season # <<>>
             => /\ Aggregates(files) # <<>>
                /\ Aggregates(files)[1].TeamSeasonStats = season[1].TeamSeasonStats
                /\ Aggregates(InOrder(files, p))[1].rushing
                      = Range(season[1].PlayerSeasonRushingStats)
                /\ Aggregates(InOrder(files, p))[1].kicking
                      = Range(season[1].PlayerSeasonKickingStats)
                /\ Aggregates(InOrder(files, p))[1].returning
                      = Range(season[1].PlayerSeasonReturningStats)

\* C16 witness: two different reports were read and compiled; read in the
\* other order they give the Game rows and the rushing rows in another order.
C16_Witness ==
    /\ season # <<>>
    /\ Len(files) = 2
    /\ files[1] # files[2]
    /\ read_game_files(<<files[2], files[1]>>).tables.games # games_df
    /\ read_game_files(<<files[2], files[1]>>).tables.rushing # player_rushing_stats_df
    /\ \E k \in DOMAIN season[1].PlayerSeasonRushingStats :
          season[1].PlayerSeasonRushingStats[k].carries > 7

\* ----------------------------------------------------- ranking inputs

\* Largest initialRankingPoints of a team and largest ranking_points in an
\* output of the ranker program.
MaxRankingPoints == 2

\* The initialRankingPoints column of TeamInfo. Only the order and the
\* equality of the points count: the teams that are not FCS are listed from
\* the highest points down, ties included, the first with the most points
\* there are, and the ranker's outputs below take every order of them. The
\* FCS team has the most points too.
TeamPoints ==
    {p \in [TeamIds -> 0..MaxRankingPoints] :
        /\ \A f \in FCSIds : p[f] = MaxRankingPoints
        /\ p[NonFCSTeams[1].id] = MaxRankingPoints
        /\ \A i, j \in DOMAIN NonFCSTeams :
              i < j => p[NonFCSTeams[i].id] >= p[NonFCSTeams[j].id]}

\* The orders in which the ranker can list the teams.
RankerOrders ==
    {p \in [DOMAIN NonFCSTeams -> DOMAIN NonFCSTeams] :
        \A i, j \in DOMAIN NonFCSTeams : p[i] = p[j] => i = j}

\* The ranking_points of the rows of an output: the ranker lists the teams
\* from the most points down, and some may have the same points. The first
\* row has the most points there are; line 1006 reads of a row's points
\* only whether they are those of the row before, so a row has these or
\* one point less.
RankerPoints ==
    {q \in [DOMAIN NonFCSTeams -> 0..MaxRankingPoints] :
        /\ q[1] = MaxRankingPoints
        /\ \A i \in DOMAIN NonFCSTeams : i > 1 => q[i] \in {q[i - 1], q[i - 1] - 1}}

\* Ranking-Output.csv as line 1059 reads it: a row of name, rank and
\* ranking_points for every team of rankings_df, in the order of the ranks
\* 1, 2, 3.
RankerRows(p, q) ==
    [i \in DOMAIN NonFCSTeams |->
        [name |-> NonFCSTeams[p[i]].id, rank |-> i, ranking_points |-> q[i]]]

RankerOutputs == {RankerRows(p, q) : p \in RankerOrders, q \in RankerPoints}

\* An output that lists the teams in the order of TeamInfo, the same
\* output without one of the teams, and with a row for an FCS team.
RankerListing ==
    RankerRows([i \in DOMAIN NonFCSTeams |-> i],
               [i \in DOMAIN NonFCSTeams |-> MaxRankingPoints])

OmittedOutputs ==
    {SelectSeq(RankerListing, LAMBDA row : row.name # NonFCSTeams[i].id) :
        i \in DOMAIN NonFCSTeams}

ExtraOutputs ==
    {Append(RankerListing, [name |-> f, rank |-> Len(RankerListing) + 1,
                            ranking_points |-> 0]) : f \in FCSIds}

\* Ranking-Output.csv with the header line and these rows, and the file the
\* shell leaves when the program writes nothing.
CsvFile(rows) == [header |-> TRUE, rows |-> rows]

EmptyFile == [header |-> FALSE, rows |-> <<>>]

RankerFiles ==
    {CsvFile(rows) : rows \in RankerOutputs \cup OmittedOutputs \cup ExtraOutputs}
    \cup {EmptyFile}

\* A call of the ranker program: the exit status and the file it leaves. A
\* call that fails may have written every row or none.
RankerRuns ==
    {[status |-> 0, file |-> f] : f \in RankerFiles}
    \cup {[status |-> 1, file |-> f] : f \in {CsvFile(RankerListing), EmptyFile}}

\* The report files whose Game rows are the argument Games, listed with the
\* weeks 3, 1 and 2 in this order.
RankingReports ==
    << [BaseReport EXCEPT !.week = <<"3">>, !.box = HomeWinBox,
                          !.date = [fmt |-> TRUE, mm |-> 9, dd |-> 16, yyyy |-> 2023]],
       BaseReport,
       [BaseReport EXCEPT !.week = <<"2">>, !.matchup = <<"B", "vs", "A">>,
                          !.significance = "non-conference",
                          !.date = [fmt |-> TRUE, mm |-> 9, dd |-> 9, yyyy |-> 2023]] >>

RankedGames ==
    {read_game_files(SubSeq(RankingReports, 1, n)).tables.games :
        n \in 0..Len(RankingReports)}

SeasonGames == read_game_files(RankingReports).tables.games

\* The teams start with the same points.
LevelPoints == [t \in TeamIds |-> MaxRankingPoints]

\* ---------------------------------------------------- ranking actions

\* Lines 1019-1053: the rows, the column week1 and the file of the games.
SeedWeek1 ==
    /\ rank_pc = "seeding"
    /\ rankings_df' = Week1(initialRankingPoints)
    /\ Season_Scores_For_Ranking' = ScoresCsv(ranking_Games)
    /\ scores_writes' = scores_writes + 1
    /\ ranking_week' = FirstRankingWeek
    /\ rank_pc' = "ranking"
    /\ UNCHANGED <<readVars, parseVars, seasonVars, initialRankingPoints, rank_error,
                   ranking_Games, ranker, Ranking_Output_csv, Ranking_Output,
                   weeks_ranking_df>>

\* Line 1057: os.system runs the ranker program with the week before the
\* loop variable and waits for it; the shell redirects what the program
\* prints into Ranking-Output.csv. The exit status it returns is dropped.
RunRanker ==
    /\ rank_pc = "ranking"
    /\ MoreWeeks(ranking_week)
    /\ \E run \in RankerRuns :
          /\ Ranking_Output_csv' = run.file
          /\ ranker' = [calls |-> ranker.calls + 1, week |-> RankerWeek(ranking_week),
                        status |-> run.status]
    /\ rank_pc' = "reading"
    /\ UNCHANGED <<readVars, parseVars, seasonVars, initialRankingPoints, rank_error,
                   ranking_Games, Season_Scores_For_Ranking, scores_writes, ranking_week,
                   Ranking_Output, weeks_ranking_df, rankings_df>>

\* What a pass of the loop leaves behind.
StoreRankingPass(df, adjusted) ==
    /\ Ranking_Output' = df
    /\ weeks_ranking_df' = adjusted
    /\ rankings_df' = RankingPass(ranking_week, rankings_df, adjusted)
    /\ ranking_week' = ranking_week + 1

\* Lines 1059-1086, the rest of a pass of the loop: the file is read,
\* merged into rankings_df and the column of the week is written.
MergeRankingOutput ==
    /\ rank_pc = "reading"
    /\ PassError(ranking_week, rankings_df, Ranking_Output_csv) = ""
    /\ StoreRankingPass(Ranking_Output_csv.rows,
                        AdjustedRanks(ranking_week, Ranking_Output_csv.rows))
    /\ rank_pc' = "ranking"
    /\ UNCHANGED <<readVars, parseVars, seasonVars, initialRankingPoints, rank_error,
                   ranking_Games, Season_Scores_For_Ranking, scores_writes, ranker,
                   Ranking_Output_csv>>

\* Lines 1059-1086 when read_csv or astype(int) raises: nothing catches the
\* exception and the run ends.
RaiseOnRankingOutput ==
    /\ rank_pc = "reading"
    /\ PassError(ranking_week, rankings_df, Ranking_Output_csv) # ""
    /\ rank_error' = PassError(ranking_week, rankings_df, Ranking_Output_csv)
    /\ rank_pc' = "raised"
    /\ UNCHANGED <<readVars, parseVars, seasonVars, initialRankingPoints, ranking_Games,
                   Season_Scores_For_Ranking, scores_writes, ranker, Ranking_Output_csv,
                   ranking_week, Ranking_Output, weeks_ranking_df, rankings_df>>

\* Line 1092.
ReturnRankings ==
    /\ rank_pc = "ranking"
    /\ ~MoreWeeks(ranking_week)
    /\ rank_pc' = "returned"
    /\ UNCHANGED <<readVars, parseVars, seasonVars, initialRankingPoints, rank_error,
                   ranking_Games, Season_Scores_For_Ranking, scores_writes, ranker,
                   Ranking_Output_csv, ranking_week, Ranking_Output, weeks_ranking_df,
                   rankings_df>>

InitRank ==
    /\ InitRead
    /\ content = BaseBox
    /\ parsed = <<>>
    /\ InitSeasonIdle
    /\ rank_pc = "seeding"
    /\ rank_error = ""
    /\ \/ initialRankingPoints \in TeamPoints /\ ranking_Games = SeasonGames
       \/ initialRankingPoints = LevelPoints /\ ranking_Games \in RankedGames
    /\ Season_Scores_For_Ranking = <<>>
    /\ scores_writes = 0
    /\ ranker = [calls |-> 0, week |-> 0, status |-> 0]
    /\ Ranking_Output_csv = EmptyFile
    /\ ranking_week = 0
    /\ Ranking_Output = <<>>
    /\ weeks_ranking_df = <<>>
    /\ rankings_df = <<>>

NextRank ==
    \/ SeedWeek1
    \/ RunRanker
    \/ MergeRankingOutput
    \/ RaiseOnRankingOutput
    \/ ReturnRankings

SpecRank == InitRank /\ [][NextRank]_vars

\* ---------------------------------------------- claims on the rankings

\* The week of the pass that ran last, 0 before the first pass.
PassedWeek == IF Ranking_Output = <<>> THEN 0 ELSE ranking_week - 1

\* The row of a ranker output for a team.
OutputRow(df, teamName) == df[CHOOSE i \in DOMAIN df : df[i].name = teamName]

\* The initialRankingPoints of the teams of rankings_df.
SeedPointsOf(row) == initialRankingPoints[row.teamName]

HigherSeedPoints(row) ==
    {SeedPointsOf(rankings_df[j]) : j \in DOMAIN rankings_df} \cap
        ((SeedPointsOf(row) + 1)..MaxRankingPoints)

\* C17: week1 is the dense rank of initialRankingPoints downwards: the highest
\* points get rank 1, equal points the same rank, and each next lower value
\* of the points the next rank. Violated: line 1032 ranks with the method
\* 'average' and line 1034 cuts the fraction off.
C17_Week1DenseRank ==
    rank_pc # "seeding" =>
        \A i \in DOMAIN rankings_df :
            rankings_df[i].week1 = 1 + Cardinality(HigherSeedPoints(rankings_df[i]))

\* The blended score of a row in tenths for the week w of 2..5: the seed
\* weighs 0.8, 0.6, 0.4, 0.2 and the ranker's adjusted rank the rest.
Score(w, row) ==
    (10 - 2 * (w - 1)) * row.week1
    + 2 * (w - 1) * OutputRow(weeks_ranking_df, row.teamName).rank

\* C18: in the weeks 2 to 5 the column ranks the rows by the blended score
\* seed * 0.8 + oracle * 0.2, then 0.6/0.4, 0.4/0.6 and 0.2/0.8, upwards: a
\* strictly lower score has a strictly smaller rank, and equal scores the
\* same rank.
C18_BlendedRank ==
    PassedWeek \in 2..5 =>
        \A i, j \in DOMAIN rankings_df :
            /\ Score(PassedWeek, rankings_df[i]) < Score(PassedWeek, rankings_df[j])
                  => rankings_df[i].column < rankings_df[j].column
            /\ Score(PassedWeek, rankings_df[i]) = Score(PassedWeek, rankings_df[j])
                  => rankings_df[i].column = rankings_df[j].column

\* C18 happens: in week 5 a team seeded better but ranked worse by the ranker
\* than another comes out behind it, and in week 2 ahead of it.
C18_Witness ==
    /\ PassedWeek = 5
    /\ \E i, j \in DOMAIN rankings_df :
          /\ rankings_df[i].week1 < rankings_df[j].week1
          /\ OutputRow(weeks_ranking_df, rankings_df[i].teamName).rank
                > OutputRow(weeks_ranking_df, rankings_df[j].teamName).rank
          /\ rankings_df[i].column > rankings_df[j].column
          /\ Score(2, rankings_df[i]) < Score(2, rankings_df[j])

\* The output of the ranker with the points 100, 100, 95.
TiedExample ==
    << [name |-> "A", rank |-> 1, ranking_points |-> 100],
       [name |-> "B", rank |-> 2, ranking_points |-> 100],
       [name |-> "C", rank |-> 3, ranking_points |-> 95] >>

\* C19: in the weeks 2 to 5, after update_ranks_to_have_tied_ranks, teams
\* with equal ranking_points have the same rank, and a team whose points no
\* row before it has keeps its raw rank. The points 100, 100, 95 with the raw
\* ranks 1, 2, 3 come out as 1, 1, 3.
C19_TiedRanks ==
    /\ LET out == update_ranks_to_have_tied_ranks(TiedExample)
       IN  <<out[1].rank, out[2].rank, out[3].rank>> = <<1, 1, 3>>
    /\ PassedWeek \in 2..5 =>
          /\ \A i, j \in DOMAIN Ranking_Output :
                Ranking_Output[i].ranking_points = Ranking_Output[j].ranking_points
                    => weeks_ranking_df[i].rank = weeks_ranking_df[j].rank
          /\ \A i \in DOMAIN Ranking_Output :
                (\A j \in 1..(i - 1) :
                    Ranking_Output[j].ranking_points # Ranking_Output[i].ranking_points)
                    => weeks_ranking_df[i].rank = Ranking_Output[i].rank
          /\ \A i \in DOMAIN Ranking_Output :
                /\ weeks_ranking_df[i].name = Ranking_Output[i].name
                /\ weeks_ranking_df[i].ranking_points = Ranking_Output[i].ranking_points

\* C19 happens: in a week of 2..5 three teams have the same points and all
\* get the rank 1.
C19_Witness ==
    /\ PassedWeek \in 2..5
    /\ Len(Ranking_Output) = 3
    /\ \A i \in DOMAIN Ranking_Output :
          /\ Ranking_Output[i].ranking_points = Ranking_Output[1].ranking_points
          /\ weeks_ranking_df[i].rank = 1

\* C20: in the weeks 6 to 17 and in the final column a team's value is the
\* rank the ranker reported for it, with no blending and no tied ranks, also
\* where teams have equal ranking_points.
C20_LateWeeksAreOracleRank ==
    PassedWeek \in 6..18 =>
        /\ weeks_ranking_df = Ranking_Output
        /\ \A i \in DOMAIN rankings_df :
              rankings_df[i].column = OutputRow(Ranking_Output, rankings_df[i].teamName).rank

\* C20 happens: the final column, written from an output where all teams
\* have the same points, holds the ranks 1, 2, 3, and they differ from week1.
C20_Witness ==
    /\ PassedWeek = 18
    /\ \A i \in DOMAIN Ranking_Output :
          Ranking_Output[i].ranking_points = Ranking_Output[1].ranking_points
    /\ {rankings_df[i].column : i \in DOMAIN rankings_df} = {1, 2, 3}
    /\ \E i \in DOMAIN rankings_df : rankings_df[i].column # rankings_df[i].week1

\* The rows of rankings_df of the teams of the reference data that are not
\* FCS.
TeamRows == {i \in DOMAIN rankings_df : rankings_df[i].teamName \in TeamIds \ FCSIds}

\* C30: in the columns of the weeks 1 to 5 every team with the best score of
\* the week (the most initialRankingPoints in week 1, the lowest blended
\* score in the weeks 2 to 5) has the rank 1, however many teams share that
\* score. Violated: an average rank of 2.0 for three teams at the top is cut
\* to 2.
C30_BestScoreIsRankOne ==
    /\ rank_pc # "seeding" =>
          \A i \in TeamRows :
              (\A j \in TeamRows : SeedPointsOf(rankings_df[i]) >= SeedPointsOf(rankings_df[j]))
                  => rankings_df[i].week1 = 1
    /\ PassedWeek \in 2..5 =>
          \A i \in TeamRows :
              (\A j \in TeamRows :
                  Score(PassedWeek, rankings_df[i]) <= Score(PassedWeek, rankings_df[j]))
                  => rankings_df[i].column = 1

\* ------------------------------------------ claims on the game records

\* C27: no two Game rows that read_game_files returns have the same gameID.
\* Violated: nothing compares the gameID of a report with those of the rows
\* appended before.
C27_GameIdsUnique ==
    returned # <<>> =>
        \A i, j \in DOMAIN returned[1].games :
            returned[1].games[i].gameID = returned[1].games[j].gameID => i = j

\* C28: read_game_files returns no Game whose away team is its home team, so
\* the check numWins + numLosses = numGamesPlayed of compile_season_stats
\* never fails on the games it returns. Violated: the matchup A @ A passes
\* the checks of lines 676-687.
C28_NoSelfMatchup ==
    /\ returned # <<>> =>
          \A i \in DOMAIN returned[1].games :
              returned[1].games[i].awayTeamName # returned[1].games[i].homeTeamName
    /\ error # "numWins + numLosses must equal numGamesPlayed"


\* ------------------------------------------------ claims on the anchors
\* The six "{count}-{average}" tokens with the count and the yards the
\* parser stores for them.
AvgFields ==
    { <<"puntsAway", "awayTeamPunts", "awayTeamPuntYards">>,
      <<"puntsHome", "homeTeamPunts", "homeTeamPuntYards">>,
      <<"krAway", "awayTeamKickReturns", "awayTeamKickReturnYards">>,
      <<"krHome", "homeTeamKickReturns", "homeTeamKickReturnYards">>,
      <<"prAway", "awayTeamPuntReturns", "awayTeamPuntReturnYards">>,
      <<"prHome", "homeTeamPuntReturns", "homeTeamPuntReturnYards">> }

\* yards is an integer nearest to count times the average tok[2] tenths.
NearestYards(tok, yards) ==
    /\ 10 * yards - tok[1] * tok[2] <= 5
    /\ tok[1] * tok[2] - 10 * yards <= 5

\* C24: for Punts-Avg, KR-Avg and PR-Avg and each team the parser stores the
\* integer before the hyphen as the count and the product of average and
\* count, rounded to the nearest integer, as the yards; '5-42.6' gives 5
\* punts and 213 punt yards, and a count of 0 gives 0 yards.
C24_AvgTimesCountRounded ==
    \A k \in DOMAIN parsed :
        parsed[k].raised = "" =>
            \A f \in AvgFields :
                /\ parsed[k].game_data[f[2]] = content[f[1]][1]
                /\ NearestYards(content[f[1]], parsed[k].game_data[f[3]])
                /\ content[f[1]] = <<5, 426>> =>
                      /\ parsed[k].game_data[f[2]] = 5
                      /\ parsed[k].game_data[f[3]] = 213
                /\ content[f[1]][1] = 0 => parsed[k].game_data[f[3]] = 0

\* C24 witness: a report with the Punts-Avg token '5-42.6' and the KR-Avg
\* token '3-6.2' is parsed into 5 punts for 213 yards and 3 returns for 19.
C24_Witness ==
    /\ parsed # <<>>
    /\ content.puntsAway = <<5, 426>>
    /\ content.krAway = <<3, 62>>
    /\ parsed[1].raised = ""
    /\ parsed[1].game_data.awayTeamPunts = 5
    /\ parsed[1].game_data.awayTeamPuntYards = 213
    /\ parsed[1].game_data.awayTeamKickReturns = 3
    /\ parsed[1].game_data.awayTeamKickReturnYards = 19

\* The section labels are as the parser expects and an anchor line is
\* absent, or a token of it is absent or not a number.
AnchorIsBad ==
    /\ \A l \in LabelNames : content.labels[l] = 2
    /\ \E k \in DOMAIN AnchorLabels : content.anchors[AnchorLabels[k]] # "ok"

\* The first anchor of the report, in the order of the parser, that is bad.
OffendingLabel ==
    AnchorLabels[CHOOSE k \in DOMAIN AnchorLabels :
                    /\ content.anchors[AnchorLabels[k]] # "ok"
                    /\ \A j \in 1..(k - 1) : content.anchors[AnchorLabels[j]] = "ok"]

NonFCSIds == TeamIds \ FCSIds

\* The rows of rankings_df for a teamName.
RankingRowsOf(teamName) == {i \in DOMAIN rankings_df : rankings_df[i].teamName = teamName}

\* The loop is at its head or behind its end: every pass begun has ended.
BetweenPasses == rank_pc \in {"ranking", "returned"}

\* C21: after the step of each week rankings_df has exactly one row and one
\* rank in week1 and in the column of the week for every team that is not
\* FCS; an output that omits such a team, in whatever week, is never merged:
\* the run ends with an error.
C21_OneRowPerTeam ==
    /\ rank_pc \in {"ranking", "reading", "returned", "raised"} =>
          \A t \in NonFCSIds :
              /\ Cardinality(RankingRowsOf(t)) = 1
              /\ \A i \in RankingRowsOf(t) :
                    /\ rankings_df[i].week1 \in 1..Len(rankings_df)
                    /\ rankings_df[i].column \in 1..Len(rankings_df)
    /\ BetweenPasses /\ ranker.calls > 0 =>
          \A t \in NonFCSIds : ~RankIsNaN(Ranking_Output_csv.rows, t)
    /\ rank_pc = "raised" => rank_error # ""

\* C21 witness: the output of the last call, for the column 'final', has the
\* header and omits a team, and the run has ended with an error.
C21_Witness ==
    /\ rank_pc = "raised"
    /\ rank_error # ""
    /\ ranker.calls = 17
    /\ Ranking_Output_csv.header
    /\ \E t \in NonFCSIds : RankIsNaN(Ranking_Output_csv.rows, t)
    /\ \A t \in NonFCSIds : Cardinality(RankingRowsOf(t)) = 1

\* C22 as stated: the ranker program is called once per week, 18 times in
\* all, one call after the other.
C22_EighteenCalls ==
    /\ rank_pc = "returned" => ranker.calls = 18
    /\ BetweenPasses /\ ranker.calls > 0 => Ranking_Output = Ranking_Output_csv.rows

\* C22 amended: the ranker program is called once for each of the 17 columns
\* week2 to week17 and final, 17 times in all, one call after the other: at
\* the head of the loop every call made has ended and its output was read
\* and merged, and while an output is read one call more was made.
C22_SeventeenCalls ==
    /\ rank_pc = "returned" => ranker.calls = 17
    /\ rank_pc = "ranking" => ranker.calls = ranking_week - FirstRankingWeek
    /\ rank_pc = "reading" => ranker.calls = ranking_week - FirstRankingWeek + 1
    /\ BetweenPasses /\ ranker.calls > 0 =>
          /\ Ranking_Output = Ranking_Output_csv.rows
          /\ rankings_df = RankingPass(ranking_week - 1, rankings_df, weeks_ranking_df)

\* C22 witness: create_rankings_df has returned after 17 calls, the last
\* with the week argument 17.
C22_Witness ==
    /\ rank_pc = "returned"
    /\ ranker.calls = 17
    /\ ranker.week = 17
    /\ Ranking_Output = Ranking_Output_csv.rows

\* C23: after a call of the ranker program that exits with a status other
\* than 0, create_rankings_df aborts and returns no table, also when the
\* file is parsable. Violated: line 1057 drops the status, the file is read
\* and merged and the loop goes on.
C23_NonZeroExitAborts ==
    ranker.status # 0 => rank_pc \in {"reading", "raised"}

\* The week of a line of Season-Scores-For-Ranking.csv.
ScoresWeek(row) == row[2]

\* C26: the games file is written once, sorted by week, before the first
\* call of the ranker program; the calls have the week arguments 1, 2, ...
\* in this order; the column of the week n (final: 18) is derived from the
\* output of the call with the week argument n - 1, which has been read
\* before the next call overwrites the file.
C26_ColumnFromCallOfWeekBefore ==
    /\ rank_pc = "seeding" => scores_writes = 0 /\ ranker.calls = 0
    /\ rank_pc \in {"ranking", "reading", "returned", "raised"} =>
          /\ scores_writes = 1
          /\ Len(Season_Scores_For_Ranking) = Len(ranking_Games)
          /\ \A g \in Range(ranking_Games) :
                \E k \in DOMAIN Season_Scores_For_Ranking :
                    Season_Scores_For_Ranking[k] = ScoresRow(g)
          /\ \A j, k \in DOMAIN Season_Scores_For_Ranking :
                j < k => ScoresWeek(Season_Scores_For_Ranking[j])
                            <= ScoresWeek(Season_Scores_For_Ranking[k])
          /\ ranker.week = ranker.calls
    /\ rank_pc = "reading" => ranker.week = ranking_week - 1
    /\ BetweenPasses /\ PassedWeek >= FirstRankingWeek =>
          /\ ranker.week = PassedWeek - 1
          /\ Ranking_Output = Ranking_Output_csv.rows
          /\ weeks_ranking_df = AdjustedRanks(PassedWeek, Ranking_Output)
          /\ \A i \in DOMAIN rankings_df :
                PassedWeek > LastBlendedWeek =>
                    rankings_df[i].column
                        = OutputRow(Ranking_Output_csv.rows, rankings_df[i].teamName).rank

\* C26 witness: the games came in the order of the weeks 3, 1, 2 and the
\* file has them as 1, 2, 3; the column final is written from the output of
\* the call with the week argument 17.
C26_Witness ==
    /\ rank_pc = "returned"
    /\ PassedWeek = 18
    /\ ranker.week = 17
    /\ Len(ranking_Games) = 3
    /\ ranking_Games[1].weekPlayed = 3
    /\ ScoresWeek(Season_Scores_For_Ranking[1]) = 1
    /\ ScoresWeek(Season_Scores_For_Ranking[3]) = 3

\* C29: the teamName values of rankings_df are the teams that are not FCS,
\* no more and no less; a name that only an output of the ranker program
\* has adds no row. Violated: from week 6 on the outer merge of line 1068
\* adds a row for such a name and nothing raises.
C29_RowsAreNonFCSTeams ==
    rank_pc \in {"ranking", "reading", "returned", "raised"} =>
        {rankings_df[i].teamName : i \in DOMAIN rankings_df} = NonFCSIds

============================================================================
